---- MODULE Spec2Model ----
(***************************************************************************)
(* Model of static/js/modern_dashboard.js: the client-side refresh engine  *)
(* of the flood monitoring dashboard.  One action per event handler,       *)
(* timer callback or promise continuation; requests in flight are kept in  *)
(* the state together with the values their closures captured.             *)
(* The alert status of static/js/dashboard.js is modelled next to it.       *)
(***************************************************************************)
EXTENDS Integers, Sequences, FiniteSets, TLC

\* ------------------------------------------------------------------ bounds
\* number of user / timer events explored along one behaviour
MaxEvents == 1

\* ------------------------------------------------------- domain of the data
\* null ids (state.municipalityId: null, state.barangayId: null)
Null == 0
MuniIds == {1}
BrgyIds == {1}
\* barangays the API lists for a municipality (/api/all-barangays/)
BrgysOf(m) == IF m = 1 THEN {1} ELSE {}
\* the range keys of the Latest / 1W controls
Ranges == {"latest", "1w"}
\* the five chart parameters, in the order loadTrendsChart queries them
ChartKeys == <<"t", "h", "r", "wl", "ws">>

\* ------------------------------------------------------------ state
VARIABLES
  municipalityId,     \* state.municipalityId
  barangayId,         \* state.barangayId
  savedMuni,          \* sessionStorage dashboard_municipality_id
  savedBrgy,          \* sessionStorage dashboard_barangay_id
  brgySel,            \* the barangay <select>: options, value, disabled
  startup,            \* position of the municipalities fetch / restore chain
  populateReqs,       \* populateBarangays fetches in flight
  applyReqs,          \* apply-thresholds POSTs in flight
  alertsReqToken,     \* state._alertsReqToken
  alertReqs,          \* updateAlerts invocations in flight
  alertView,          \* badge, title, message, parameter status list
  areaReqs,           \* barangay-details fetches of updateAffectedAreas
  areaTable,          \* the affected-areas table body
  mapSeq,             \* number of map-data requests issued so far
  mapReqs,            \* updateMapData invocations in flight
  mapView,            \* map layers, heat points, map-last-updated text
  sensorReqs,         \* sensor-data fetches in flight
  sensorView,         \* the five sensor value texts
  trendsFetchInFlight,\* state._trendsFetchInFlight
  trendsRange,        \* state.trendsRange
  normalize,          \* state.normalize
  trends,             \* the trends refresh cycles: those in flight and the last finished
  chart,              \* chart labels, datasets, overlay, last-updated text
  dash,               \* dashboard.js: window flags, alerts fetches, status display
  align,              \* the series functions applied to their inputs, step by step
  beforeReload,       \* the selection the page had when it was last reloaded
  nEvents             \* user / timer events so far

vars == <<municipalityId, barangayId, savedMuni, savedBrgy, brgySel, startup,
          populateReqs, applyReqs, alertsReqToken, alertReqs, alertView,
          areaReqs, areaTable, mapSeq, mapReqs, mapView, sensorReqs,
          sensorView, trendsFetchInFlight, trendsRange, normalize, trends,
          chart, dash, align, beforeReload, nEvents>>

scopeVars  == <<municipalityId, barangayId, savedMuni, savedBrgy, brgySel>>
alertVars  == <<alertsReqToken, alertReqs, alertView, areaReqs, areaTable>>
mapVars    == <<mapSeq, mapReqs, mapView>>
sensorVars == <<sensorReqs, sensorView>>
trendVars  == <<trendsFetchInFlight, trendsRange, normalize, trends, chart>>

\* ---------------------------------------------------------- small helpers
Max(a, b) == IF a >= b THEN a ELSE b
Min(a, b) == IF a <= b THEN a ELSE b

Range(s) == {s[i] : i \in 1..Len(s)}

Take(s, n) == SubSeq(s, 1, Min(n, Len(s)))

\* a sort that is not stable: an element goes before the equal ones already
\* placed
RECURSIVE InsertDescUnstable(_, _)
InsertDescUnstable(sorted, x) ==
  IF sorted = <<>> THEN <<x>>
  ELSE IF Head(sorted).level > x.level
       THEN <<Head(sorted)>> \o InsertDescUnstable(Tail(sorted), x)
       ELSE <<x>> \o sorted

\* Array.prototype.sort with a comparator on levels, descending; the sort is
\* stable, so equal levels keep their input order (insertion sort).
RECURSIVE InsertDesc(_, _)
InsertDesc(sorted, x) ==
  IF sorted = <<>> THEN <<x>>
  ELSE IF Head(sorted).level >= x.level
       THEN <<Head(sorted)>> \o InsertDesc(Tail(sorted), x)
       ELSE <<x>> \o sorted

RECURSIVE SortByLevelDesc(_)
SortByLevelDesc(s) ==
  IF s = <<>> THEN <<>>
  ELSE InsertDesc(SortByLevelDesc(SubSeq(s, 1, Len(s) - 1)), s[Len(s)])

\* ------------------------------------------------- time series (pure code)
\* "no reading": JavaScript null in a values array
NoData == -1
\* Date parse failure: new Date(x).getTime() is NaN
NaN == -1000
\* length of one day in the time unit of the model (24 * 60 * 60 * 1000 ms)
DayLen == 1

\* The timestamp strings the API may send, with the instant (in days) that
\* new Date(label).getTime() yields for each; "d10z" is another spelling of
\* the instant of "d10", "bad" does not parse.
LabelTime == [d01 |-> 1, d03 |-> 3, d05 |-> 5, d10 |-> 10, d10z |-> 10,
              d40 |-> 40, d375 |-> 375, bad |-> NaN]
LabelNames == DOMAIN LabelTime

DateMs(l) == LabelTime[l]

EmptySeries == [labels |-> <<>>, labelsManila |-> <<>>, values |-> <<>>]

\* an array kept as it is
KeepAll(s) == s

\* new Set() insertion followed by Array.from: first occurrences, in order
RECURSIVE Distinct(_)
Distinct(s) ==
  IF s = <<>> THEN <<>>
  ELSE LET d == Distinct(SubSeq(s, 1, Len(s) - 1))
       IN  IF s[Len(s)] \in Range(d) THEN d ELSE Append(d, s[Len(s)])

\* the comparator (a, b) => new Date(a) - new Date(b); a NaN result counts
\* as 0 in Array.prototype.sort
DateCompare(a, b) ==
  IF DateMs(a) = NaN \/ DateMs(b) = NaN THEN 0 ELSE DateMs(a) - DateMs(b)

RECURSIVE InsertByDate(_, _)
InsertByDate(sorted, x) ==
  IF sorted = <<>> THEN <<x>>
  ELSE IF DateCompare(Head(sorted), x) <= 0
       THEN <<Head(sorted)>> \o InsertByDate(Tail(sorted), x)
       ELSE <<x>> \o sorted

RECURSIVE SortByDate(_)
SortByDate(s) ==
  IF s = <<>> THEN <<>>
  ELSE InsertByDate(SortByDate(SubSeq(s, 1, Len(s) - 1)), s[Len(s)])

\* Array.prototype.sort as V8 runs it on a short array (TimSort with one
\* run): the leading run is found, reversed when strictly descending, and
\* the rest is placed by binary insertion.  Indices are counted from 0 as in
\* the engine.  Every stable sort gives the result of SortByDate when all
\* labels parse; with a label that does not parse the comparator is not
\* consistent and the order depends on the engine.
CountAndMakeRun(a) ==
  LET n == Len(a)
      desc == DateCompare(a[2], a[1]) < 0
      inRun(j) == IF desc THEN DateCompare(a[j], a[j - 1]) < 0
                  ELSE DateCompare(a[j], a[j - 1]) >= 0
      run == CHOOSE e \in 2..n :
               (\A j \in 3..e : inRun(j)) /\ (e = n \/ ~inRun(e + 1))
  IN  [run |-> run,
       arr |-> IF desc
               THEN [i \in 1..n |-> IF i <= run THEN a[run + 1 - i] ELSE a[i]]
               ELSE a]

RECURSIVE BinarySearch(_, _, _, _)
BinarySearch(a, pivot, left, right) ==
  IF left >= right THEN left
  ELSE LET mid == left + ((right - left) \div 2)
       IN  IF DateCompare(pivot, a[mid + 1]) < 0
           THEN BinarySearch(a, pivot, left, mid)
           ELSE BinarySearch(a, pivot, mid + 1, right)

RECURSIVE BinaryInsertionSort(_, _)
BinaryInsertionSort(a, start) ==
  IF start >= Len(a) THEN a
  ELSE LET pivot == a[start + 1]
           pos == BinarySearch(a, pivot, 0, start)
       IN  BinaryInsertionSort(
             [i \in 1..Len(a) |->
                IF i <= pos THEN a[i]
                ELSE IF i = pos + 1 THEN pivot
                ELSE IF i <= start + 1 THEN a[i - 1]
                ELSE a[i]],
             start + 1)

SortTim(a) ==
  IF Len(a) < 2 THEN a
  ELSE BinaryInsertionSort(CountAndMakeRun(a).arr, CountAndMakeRun(a).run)

\* the array back to front
ReverseLabels(engine, s) == [i \in 1..Len(s) |-> s[Len(s) + 1 - i]]

\* the sort of the browser that runs the page: "insertion" or "tim"
SortLabels(engine, s) == IF engine = "tim" THEN SortTim(s) ELSE SortByDate(s)

RECURSIVE ConcatLabels(_)
ConcatLabels(arr) ==
  IF arr = <<>> THEN <<>> ELSE Head(arr).labels \o ConcatLabels(Tail(arr))

\* the value at the first index holding l
FirstValueAt(s, l) ==
  LET idx == {i \in 1..Len(s.labels) : s.labels[i] = l}
  IN  IF idx = {} THEN NoData
      ELSE s.values[CHOOSE j \in idx : \A k \in idx : j <= k]

\* map.get(l) after map.set(labels[i], values[i]) for i = 0..n-1: the value
\* at the last index holding l
LastValueAt(s, l) ==
  LET idx == {i \in 1..Len(s.labels) : s.labels[i] = l}
      i   == CHOOSE j \in idx : \A k \in idx : k <= j
  IN  IF idx = {} THEN NoData
      ELSE IF i <= Len(s.values) THEN s.values[i] ELSE NoData

\* the first entry, whatever its key
FirstEntry(arr, k) == arr[1]

\* series[s.key] assignments in input order: the last entry of a key wins
LastWithKey(arr, k) ==
  LET idx == {i \in 1..Len(arr) : arr[i].key = k}
  IN  arr[CHOOSE j \in idx : \A i \in idx : i <= j]

\* a merge that leaves the keys out when there is no label at all
mergeNoKeys(engine, arr) ==
  LET labels == SortLabels(engine, Distinct(ConcatLabels(arr)))
      keys   == IF labels = <<>> THEN {} ELSE {arr[i].key : i \in 1..Len(arr)}
  IN  [labels |-> labels,
       series |-> [k \in keys |->
                     [i \in 1..Len(labels) |->
                        LastValueAt(LastWithKey(arr, k), labels[i])]]]

mergeSeriesOn(engine, arr) ==
  LET labels == SortLabels(engine, Distinct(ConcatLabels(arr)))
      keys   == {arr[i].key : i \in 1..Len(arr)}
  IN  [labels |-> labels,
       series |-> [k \in keys |->
                     [i \in 1..Len(labels) |->
                        LastValueAt(LastWithKey(arr, k), labels[i])]]]

\* the labels of the chart-data API all parse: the engines agree on them
mergeSeries(arr) == mergeSeriesOn("insertion", arr)

\* (series.k || [])
SeriesOf(series, k) == IF k \in DOMAIN series THEN series[k] ELSE <<>>

\* the slot before
ValueBefore(series, k, i) ==
  IF i > 1 /\ i - 1 <= Len(SeriesOf(series, k))
  THEN SeriesOf(series, k)[i - 1] ELSE NoData

\* (series.k || [])[i] ?? null
ValueAt(series, k, i) ==
  IF i <= Len(SeriesOf(series, k)) THEN SeriesOf(series, k)[i] ELSE NoData

FiveKeys == Range(ChartKeys)

\* windows one day short
MapDaysShort ==
  [x \in {"1w"} |-> 6] @@ [x \in {"1m"} |-> 29] @@ [x \in {"1y"} |-> 364]

\* const mapDays = { '1w':7, '1m':30, '1y':365 }
MapDays == [x \in {"1w"} |-> 7] @@ [x \in {"1m"} |-> 30] @@ [x \in {"1y"} |-> 365]

\* out as it is first built: nothing kept
CopyNothing(merged) ==
  [labels |-> <<>>, series |-> [k \in FiveKeys |-> <<>>]]

CopyMerged(merged) ==
  [labels |-> merged.labels,
   series |-> [k \in FiveKeys |-> SeriesOf(merged.series, k)]]

filterMergedByRange(merged, rangeKey) ==
  LET labels == merged.labels
  IN  IF labels = <<>> \/ rangeKey = "latest" \/ rangeKey \notin DOMAIN MapDays
      THEN CopyMerged(merged)
      ELSE IF DateMs(labels[Len(labels)]) = NaN
      THEN CopyMerged(merged)
      ELSE LET cutoffMs == DateMs(labels[Len(labels)]) - MapDays[rangeKey] * DayLen
               keep == {i \in 1..Len(labels) :
                          DateMs(labels[i]) # NaN /\ DateMs(labels[i]) >= cutoffMs}
               \* the kept indices in increasing order
               pos(n) == CHOOSE i \in keep : Cardinality({j \in keep : j <= i}) = n
               cnt == Cardinality(keep)
           IN  [labels |-> [n \in 1..cnt |-> labels[pos(n)]],
                series |-> [k \in FiveKeys |->
                              [n \in 1..cnt |-> ValueAt(merged.series, k, pos(n))]]]

\* arr.some(v => typeof v === 'number' && !isNaN(v)) over the five keys
AnyData(merged) ==
  \E k \in FiveKeys : \E i \in 1..Len(SeriesOf(merged.series, k)) :
     SeriesOf(merged.series, k)[i] # NoData

\* !merged.labels.length || !anyData
StageEmpty(merged) == merged.labels = <<>> \/ ~AnyData(merged)

\* ------------------------------------------------ chart-data fetch (one key)
\* What the network gives back for one GET /api/chart-data/: ok = FALSE is a
\* network error or a non-2xx status, otherwise the JSON body.
RawErr   == [ok |-> FALSE, labels |-> <<>>, labels_manila |-> <<>>, values |-> <<>>]
RawEmpty == [ok |-> TRUE,  labels |-> <<>>, labels_manila |-> <<>>, values |-> <<>>]
RawNulls == [ok |-> TRUE,  labels |-> <<"d01">>, labels_manila |-> <<>>,
             values |-> <<NoData>>]
RawData  == [ok |-> TRUE,  labels |-> <<"d01", "d10">>, labels_manila |-> <<>>,
             values |-> <<30, 31>>]
RawLate  == [ok |-> TRUE,  labels |-> <<"d05", "d10">>, labels_manila |-> <<>>,
             values |-> <<5, 12>>]

\* const rangeToDays = r => r === '1w' ? 7 : r === '1m' ? 30 : r === '1y' ? 365 : null
rangeToDays(r) ==
  IF r = "1w" THEN 7 ELSE IF r = "1m" THEN 30 ELSE IF r = "1y" THEN 365 ELSE Null

\* doFetch(u): a non-ok response throws; otherwise labels fall back to
\* labels_manila when empty and labels / values are cut to the same length
doFetch(raw) ==
  IF ~raw.ok THEN [status |-> "rejected", value |-> EmptySeries]
  ELSE LET labels == IF raw.labels = <<>> /\ raw.labels_manila # <<>>
                     THEN raw.labels_manila ELSE raw.labels
           n == Min(Len(labels), Len(raw.values))
       IN  [status |-> "fulfilled",
            value  |-> [labels       |-> Take(labels, n),
                        labelsManila |-> Take(raw.labels_manila, n),
                        values       |-> Take(raw.values, n)]]

\* the promise chain of fetchChart without its final .catch: the first
\* attempt, and for the 'latest' range a retry with days=1 when it is empty
FetchChartNoCatch(range, first, retry) ==
  LET r1 == doFetch(first)
  IN  IF r1.status = "rejected" THEN r1
      ELSE IF r1.value.labels = <<>> /\ rangeToDays(range) = Null
           THEN doFetch(retry)
           ELSE r1

\* fetchChart with its final .catch left out: a failure stays a rejection
fetchChartUncaught(range, first, retry) == FetchChartNoCatch(range, first, retry)

\* fetchChart: .catch(err => ({labels: [], labelsManila: [], values: []}))
fetchChart(range, first, retry) ==
  LET r == FetchChartNoCatch(range, first, retry)
  IN  IF r.status = "rejected"
      THEN [status |-> "fulfilled", value |-> EmptySeries]
      ELSE r

\* What the network gives back for the five queries of one stage: for each
\* key the first response and the response to the days=1 retry (if made).
Both(first, retry) == [first |-> first, retry |-> retry]
StagePayloads ==
  { [i \in 1..5 |-> Both(RawErr, RawErr)],
    [i \in 1..5 |-> Both(RawEmpty, RawEmpty)],
    [i \in 1..5 |-> IF i = 1 THEN Both(RawEmpty, RawErr) ELSE Both(RawNulls, RawErr)],
    [i \in 1..5 |-> IF i = 1 THEN Both(RawData, RawErr) ELSE Both(RawErr, RawErr)],
    [i \in 1..5 |-> IF i = 3 THEN Both(RawEmpty, RawLate) ELSE Both(RawData, RawErr)] }

\* Promise.allSettled(queries)
runOnce(range, payload) ==
  [i \in 1..5 |-> fetchChart(range, payload[i].first, payload[i].retry)]

\* (results[i].status === 'fulfilled') ? results[i].value : {labels: [], values: []}
\* followed by mergeSeries over the five keys
MergeResults(results) ==
  mergeSeries([i \in 1..5 |->
     LET v == IF results[i].status = "fulfilled" THEN results[i].value
              ELSE EmptySeries
     IN  [labels |-> v.labels, values |-> v.values, key |-> ChartKeys[i]]])

\* a fetch of the stage met a network or HTTP error
AnyFailed(range, payload) ==
  \E i \in 1..5 :
     FetchChartNoCatch(range, payload[i].first, payload[i].retry).status = "rejected"

AnyRejected(results) == \E i \in 1..5 : results[i].status = "rejected"

\* runOnce followed by the merge of its settled results, for every range and
\* every answer of the network (the .then() callbacks look their stage up here)
SettledStages ==
  { [range |-> r, payload |-> p,
     merged |-> MergeResults(runOnce(r, p)),
     failed |-> AnyFailed(r, p),
     rejected |-> AnyRejected(runOnce(r, p))] : r \in Ranges, p \in StagePayloads }
SettledStage(r, p) == CHOOSE s \in SettledStages : s.range = r /\ s.payload = p

\* --------------------------------------------------------- alerts (pure code)
\* responses of GET /api/flood-alerts/?active=true : data.results
Alert(lvl, aff) == [level |-> lvl, affected |-> aff]
AlertPayloads ==
  { <<>>,
    << Alert(2, {}), Alert(3, {1}), Alert(3, {}) >> }

\* responses of GET /api/threshold-visualization/ after the mapping of
\* fetchThresholdSeverity: items with parameter and level
Item(p, lvl) == [parameter |-> p, level |-> lvl]
NoItems == << >>
ItemPayloads ==
  { << Item("rainfall", 0), Item("humidity", 0) >>,
    << Item("temperature", 1), Item("rainfall", 4), Item("humidity", 2),
       Item("water_level", 4) >> }

\* Wider response bodies for the severity computation alone: one declared
\* alert of any level 0..5, affecting barangay 1 or none, every pair of alerts
\* of levels 2 and 3, and threshold items reaching every maximum level 0..5.
DeclaredAlerts == {Alert(l, a) : l \in 0..5, a \in {{}, {1}}}
AlertLists ==
  AlertPayloads \cup {<<a>> : a \in DeclaredAlerts}
                \cup {<<a, b>> : a, b \in {x \in DeclaredAlerts : x.level \in {2, 3}}}
ItemLists ==
  ItemPayloads \cup {NoItems} \cup {<< Item("rainfall", l) >> : l \in 0..5}

\* the level of the first item taken for the level of the whole response
FirstLevel(items) == IF items = <<>> THEN 0 ELSE Head(items).level

\* fetchThresholdSeverity: null on a failed fetch, otherwise
\* { level: max item level, items }
RECURSIVE MaxLevel(_)
MaxLevel(items) ==
  IF items = <<>> THEN 0 ELSE Max(Head(items).level, MaxLevel(Tail(items)))

NullSev == [isNull |-> TRUE, level |-> 0, items |-> NoItems]
fetchThresholdSeverity(ok, items) ==
  IF ~ok THEN NullSev
  ELSE [isNull |-> FALSE, level |-> MaxLevel(items), items |-> items]

\* every alert of the response, whatever barangay is selected
AllAlerts(results, brgy) == results

\* results.filter(a => a.affected_barangays.map(String).includes(selId)) when
\* a barangay is selected
ConsideredAlerts(results, brgy) ==
  IF brgy # Null THEN SelectSeq(results, LAMBDA a : brgy \in a.affected)
  ELSE results

NoAlert == [isNull |-> TRUE, level |-> 0, affected |-> {}]

\* results.sort((a,b) => b.severity_level - a.severity_level)[0] || null
Highest(results, brgy) ==
  LET sorted == SortByLevelDesc(ConsideredAlerts(results, brgy))
  IN  IF sorted = <<>> THEN NoAlert
      ELSE [isNull |-> FALSE, level |-> sorted[1].level,
            affected |-> sorted[1].affected]

\* whether several considered alerts share the top level (kept with the
\* invocation for reference; the code does not compute it)
Tied(results, brgy) ==
  LET cons == ConsideredAlerts(results, brgy)
  IN  Cardinality({i \in 1..Len(cons) :
                     \A j \in 1..Len(cons) : cons[j].level <= cons[i].level}) > 1

\* items.filter(it => (it.level||0) > 0).sort(by level desc).slice(0,3)
TopItems(items) ==
  Take(SortByLevelDesc(SelectSeq(items, LAMBDA it : it.level > 0)), 3)

\* the token test left out: no continuation is ever taken for stale
NeverStale(token, current) == FALSE

\* the token test at the head of each continuation of updateAlerts:
\* if (token !== state._alertsReqToken) return;
IsStale(token, current) == token # current

\* The part of updateAlerts that runs after the threshold severity arrived:
\* badge from combinedLevel, then one of the three title / message branches.
AlertStatus(highest, sev, prev) ==
  LET thresholdLevel == IF sev.isNull THEN 0 ELSE sev.level
      combinedLevel  == Max(IF highest.isNull THEN 0 ELSE highest.level,
                            thresholdLevel)
  IN  IF ~highest.isNull /\ highest.level >= thresholdLevel
      THEN [badge |-> combinedLevel, title |-> "alert",
            titleLevel |-> highest.level, titleParam |-> "",
            msg |-> "monitoring",
            details |-> IF sev.isNull THEN NoItems ELSE TopItems(sev.items),
            list |-> prev.list]
      ELSE IF thresholdLevel > 0 /\ ~sev.isNull
      THEN [badge |-> combinedLevel, title |-> "threshold",
            titleLevel |-> thresholdLevel,
            titleParam |-> SortByLevelDesc(sev.items)[1].parameter,
            msg |-> "exceed",
            details |-> TopItems(sev.items),
            list |-> prev.list]
      ELSE [badge |-> combinedLevel, title |-> "none",
            titleLevel |-> 0, titleParam |-> "", msg |-> "monitoring",
            details |-> NoItems, list |-> prev.list]

\* the barangays of the highest alert passed on in every branch
AlwaysAffected(highest, sev) == highest.affected

\* the argument of updateAffectedAreas in the three branches
AffectedArg(highest, sev) ==
  IF ~highest.isNull /\ highest.level >= (IF sev.isNull THEN 0 ELSE sev.level)
  THEN highest.affected ELSE {}

\* the reset of the alert status UI in the two selector change handlers
ResetAlertView ==
  [badge |-> 0, title |-> "loading", titleLevel |-> 0, titleParam |-> "",
   msg |-> "fetching",
   details |-> NoItems, list |-> NoItems]

\* renderParamStatusList(items) is called by updateAlerts and defined outside
\* modern_dashboard.js: it fills the parameter status list
renderParamStatusList(view, items) == [view EXCEPT !.list = items]

\* the continuation after fetchParameterStatus: render the list and, when the
\* message holds no <ul> yet, append the first three breached items
ParamStatusApplied(view, ok, items) ==
  LET shown  == IF ok THEN items ELSE NoItems
      mapped == SelectSeq(shown, LAMBDA x : x.level > 0)
  IN  [renderParamStatusList(view, shown) EXCEPT
         !.details = IF ok /\ view.details = NoItems /\ mapped # <<>>
                     THEN Take(mapped, 3) ELSE @]

\* ------------------------------------------------------------- chart (pure)
\* formatManilaShort: HH:mm of the instant in Asia/Manila (UTC+8)
ShortTime == [d01 |-> "08:00", d05 |-> "08:00", d10 |-> "08:00",
              d10z |-> "08:00", bad |-> "Invalid Date"]
formatManilaShort(l) == ShortTime[l]

SeqMin(s) == CHOOSE x \in Range(s) : \A y \in Range(s) : x <= y
SeqMax(s) == CHOOSE x \in Range(s) : \A y \in Range(s) : x >= y

\* normalizeArray: each series to 0..100, nulls kept ((v - min) / range * 100,
\* rounded down here)
normalizeArray(arr) ==
  LET nums == SelectSeq(arr, LAMBDA v : v # NoData)
  IN  IF arr = <<>> THEN <<>>
      ELSE IF nums = <<>> THEN [i \in 1..Len(arr) |-> NoData]
      ELSE IF SeqMax(nums) = SeqMin(nums)
           THEN [i \in 1..Len(arr) |-> IF arr[i] = NoData THEN NoData ELSE 50]
           ELSE [i \in 1..Len(arr) |->
                   IF arr[i] = NoData THEN NoData
                   ELSE ((arr[i] - SeqMin(nums)) * 100)
                          \div (SeqMax(nums) - SeqMin(nums))]

\* applyChartScaling: the data arrays given to the five datasets
applyChartScaling(series, norm) ==
  [k \in FiveKeys |-> IF norm THEN normalizeArray(SeriesOf(series, k))
                      ELSE SeriesOf(series, k)]

NoSeries == [k \in FiveKeys |-> <<>>]

\* the texts of #trends-updated-at
UpdatedDash == [kind |-> "dash", label |-> "", fallback |-> FALSE]
UpdatedNow  == [kind |-> "now",  label |-> "", fallback |-> FALSE]

\* if (el && (!el.textContent || /—\s*$/.test(el.textContent))) el.textContent = now
FixUpdatedAt(u) == IF u.kind = "dash" THEN UpdatedNow ELSE u

\* renderTrendsFromMerged(merged, annotateFallback) with the request filters
\* the rendered response was fetched with (src)
renderTrendsFromMerged(c, merged, annotateFallback, range, norm, src) ==
  LET filtered == filterMergedByRange(merged, range)
      n == Len(filtered.labels)
  IN  [c EXCEPT !.isoLabels = filtered.labels,
                !.labels    = [i \in 1..n |-> formatManilaShort(filtered.labels[i])],
                !.rawSeries = filtered.series,
                !.hasRaw    = TRUE,
                !.datasets  = applyChartScaling(filtered.series, norm),
                !.updatedAt = [kind |-> "at",
                               label |-> IF n > 0 THEN filtered.labels[n] ELSE "",
                               fallback |-> annotateFallback],
                !.overlay   = "",
                !.src       = src]

\* showTrendsNoData: empty chart, overlay chosen by state.barangayId
showTrendsNoData(c, brgy) ==
  [c EXCEPT !.labels    = <<>>,
            !.datasets  = NoSeries,
            !.overlay   = IF brgy # Null THEN "No data for selected barangay"
                          ELSE "No data available for the selected location",
            !.updatedAt = UpdatedDash]

\* ------------------------------------------------------------ initial state
SensorParams == {"temperature", "humidity", "rainfall", "water_level", "wind_speed"}

\* an updateAlerts invocation waiting for its flood-alerts response
NewAlertReq(token, m, b) ==
  [token |-> token, stage |-> "alerts", m |-> m, b |-> b, highest |-> NoAlert,
   tied |-> FALSE]

\* an updateMapData invocation waiting for its map-data response
NewMapReq(id, m, b) == [id |-> id, stage |-> "map", m |-> m, b |-> b]

\* a trends cycle whose first stage (runOnce(true)) has just been issued
\* one stage of a cycle: the filters and the range its five fetches carry
\* (fetchChart reads state.trendsRange when called), how it settled,
\* whether one of its fetches met a network or HTTP error, and whether
\* Promise.allSettled saw a rejected promise
StageEntry(m, b, range) ==
  [m |-> m, b |-> b, range |-> range, res |-> "pending", failed |-> FALSE,
   rejected |-> FALSE]

NewCycle(id, m, b, range) ==
  [stage |-> 1, m |-> m, b |-> b, range |-> range, id |-> id,
   hung |-> FALSE, changed |-> FALSE, log |-> << StageEntry(m, b, range) >>]

InitChart ==
  [isoLabels |-> <<>>, labels |-> <<>>, rawSeries |-> NoSeries,
   hasRaw |-> FALSE, datasets |-> NoSeries, updatedAt |-> UpdatedDash,
   overlay |-> "", src |-> [m |-> Null, b |-> Null, id |-> 0]]

\* the page has not been reloaded
NoReload == [reloaded |-> FALSE, settled |-> FALSE, m |-> Null, b |-> Null]

\* no series function is being followed
NoAlign ==
  [step |-> "none", engine |-> "insertion", arr |-> <<>>,
   merged   |-> [labels |-> <<>>, series |-> <<>>],
   again    |-> [labels |-> <<>>, series |-> <<>>],
   range    |-> "latest",
   filtered |-> [labels |-> <<>>, series |-> <<>>]]

\* DOMContentLoaded: setupLocationSelector, initChart, initMap and the first
\* refreshAll() have run; the page may have been reloaded with any selection
\* left in the session storage.
InitPage ==
  /\ municipalityId = Null
  /\ barangayId = Null
  /\ savedMuni \in MuniIds \cup {Null}
  /\ savedBrgy \in BrgyIds \cup {Null}
  /\ brgySel = [options |-> {}, value |-> Null, disabled |-> TRUE]
  /\ startup = "fetching"
  /\ populateReqs = {}
  /\ applyReqs = 0
  /\ alertsReqToken = 1
  /\ alertReqs = {NewAlertReq(1, Null, Null)}
  /\ alertView = [badge |-> 0, title |-> "init", titleLevel |-> 0,
                  titleParam |-> "", msg |-> "init", details |-> NoItems,
                  list |-> NoItems]
  /\ areaReqs = {}
  /\ areaTable = [by |-> 0, rows |-> "init"]
  /\ mapSeq = 1
  /\ mapReqs = {NewMapReq(1, Null, Null)}
  /\ mapView = [layers |-> 0, heat |-> 0, circles |-> {}, locations |-> 0,
                lastUpdated |-> "Loading data..."]
  /\ sensorReqs = 1
  /\ sensorView = [p \in SensorParams |-> "init"]
  /\ trendsFetchInFlight = TRUE
  /\ trendsRange = "latest"
  /\ normalize = FALSE
  /\ trends = {NewCycle(1, Null, Null, "latest")}
  /\ chart = [InitChart EXCEPT !.updatedAt = UpdatedNow]
  /\ dash = [selectedMunicipality |-> Null, isRetryAlertsFetch |-> FALSE,
             seq |-> 1, reqs |-> {[id |-> 1, kind |-> "alerts"]},
             statusText |-> "init", alertsCount |-> "init"]
  /\ beforeReload = NoReload
  /\ nEvents = 0

\* the page itself
Init == InitPage /\ align = NoAlign

\* --------------------------------------------- the four refresh functions
\* updateSensorValues(): one more sensor-data fetch
UpdateSensorValues == sensorReqs' = sensorReqs + 1

\* the token read without the increment
SameToken(tok) == tok

\* const token = ++state._alertsReqToken
NextToken(tok) == tok + 1

\* updateAlerts() called when the token counter holds tok and the scope is
\* (m, b): take a new token and fetch the active alerts
UpdateAlerts(tok, m, b) ==
  /\ alertsReqToken' = NextToken(tok)
  /\ alertReqs' = alertReqs \cup {NewAlertReq(NextToken(tok), m, b)}

\* updateMapData() with scope (m, b)
UpdateMapData(m, b) ==
  /\ mapSeq' = mapSeq + 1
  /\ mapReqs' = mapReqs \cup {NewMapReq(mapSeq + 1, m, b)}
  /\ mapView' = [mapView EXCEPT !.lastUpdated = "Loading data..."]

\* the cycles whose promise chain has not finished
InFlight(cycles) == {c \in cycles : c.stage # 0}

\* the cycles in flight note that the selection changed under them
Marked(cycles, scopeChanged) ==
  {[c EXCEPT !.changed = @ \/ (scopeChanged /\ c.stage # 0)] : c \in cycles}

LastId(cycles) == CHOOSE n \in {c.id : c \in cycles} : \A c \in cycles : c.id <= n

\* the in-flight test left out of the guard
NoGuard(inFlight) == FALSE

\* cycles a timer-driven run follows
MaxCycles == 4

\* if (!state.chart || state._trendsFetchInFlight) return;
TrendsGuard(inFlight) == inFlight

\* loadTrendsChart() with scope (m, b) and state.trendsRange = range;
\* scopeChanged tells whether the calling handler changed the selection
LoadTrendsChart(m, b, range, scopeChanged) ==
  IF TrendsGuard(trendsFetchInFlight)
  THEN /\ trends' = Marked(trends, scopeChanged)
       /\ UNCHANGED <<trendsFetchInFlight, chart>>
  ELSE /\ trendsFetchInFlight' = TRUE
       /\ trends' = InFlight(Marked(trends, scopeChanged))
                       \cup {NewCycle(LastId(trends) + 1, m, b, range)}
       /\ chart' = [chart EXCEPT !.updatedAt = FixUpdatedAt(@)]

\* refreshAll()
RefreshAll(tok, m, b, scopeChanged) ==
  /\ UpdateSensorValues
  /\ UpdateAlerts(tok, m, b)
  /\ UpdateMapData(m, b)
  /\ LoadTrendsChart(m, b, trendsRange, scopeChanged)

\* a handler that changes the selection without calling loadTrendsChart
NoteScopeChange(scopeChanged) ==
  /\ trends' = Marked(trends, scopeChanged)
  /\ UNCHANGED <<trendsFetchInFlight, chart>>

Event == nEvents < MaxEvents /\ nEvents' = nEvents + 1

\* --------------------------------------------------- user and timer events
\* 'change' on #location-select
MunicipalityChange(v) ==
  /\ Event
  /\ startup = "loaded"
  /\ v # municipalityId
  /\ municipalityId' = v
  /\ savedMuni' = v
  /\ barangayId' = Null
  /\ UNCHANGED savedBrgy
  /\ alertView' = ResetAlertView
  /\ UNCHANGED <<areaReqs, areaTable, sensorView, trendsRange, normalize, startup>>
  /\ IF v # Null
     THEN \* populateBarangays(v).then(() => refreshAll()); applyThresholdsNow()
          /\ brgySel' = [options |-> {}, value |-> Null, disabled |-> TRUE]
          /\ alertsReqToken' = alertsReqToken + 1
          /\ populateReqs' = populateReqs \cup
               {[m |-> v, cont |-> "refresh", brgy |-> Null, ev |-> nEvents + 1]}
          /\ applyReqs' = applyReqs + 1
          /\ NoteScopeChange(TRUE)
          /\ UNCHANGED <<alertReqs, mapVars, sensorReqs>>
     ELSE /\ brgySel' = [options |-> {}, value |-> Null, disabled |-> TRUE]
          /\ RefreshAll(alertsReqToken + 1, Null, Null, TRUE)
          /\ UNCHANGED <<populateReqs, applyReqs>>
  /\ UNCHANGED <<dash, align, beforeReload>>

\* 'change' on #barangay-select
BarangayChange(v) ==
  /\ Event
  /\ ~brgySel.disabled
  /\ v \in brgySel.options \cup {Null}
  /\ v # brgySel.value
  /\ barangayId' = v
  /\ savedBrgy' = v
  /\ brgySel' = [brgySel EXCEPT !.value = v]
  /\ alertView' = ResetAlertView
  /\ RefreshAll(alertsReqToken + 1, municipalityId, v, v # barangayId)
  /\ applyReqs' = applyReqs + 1
  /\ UNCHANGED <<municipalityId, savedMuni, startup, populateReqs, areaReqs,
                 areaTable, sensorView, trendsRange, normalize>>
  /\ UNCHANGED <<dash, align, beforeReload>>

\* 'click' on a barangay circle of the map
CircleClick(b) ==
  /\ Event
  /\ b \in mapView.circles
  /\ barangayId' = b
  /\ brgySel' = [brgySel EXCEPT !.value = IF b \in brgySel.options THEN b ELSE Null]
  /\ savedBrgy' = b
  /\ RefreshAll(alertsReqToken, municipalityId, b, b # barangayId)
  /\ applyReqs' = applyReqs + 1
  /\ UNCHANGED <<municipalityId, savedMuni, startup, populateReqs, alertView,
                 areaReqs, areaTable, sensorView, trendsRange, normalize>>
  /\ UNCHANGED <<dash, align, beforeReload>>

\* setInterval(updateSensorValues, 60 * 1000)
SensorTick ==
  /\ Event
  /\ UpdateSensorValues
  /\ UNCHANGED <<scopeVars, startup, populateReqs, applyReqs, alertVars,
                 mapVars, sensorView, trendVars>>
  /\ UNCHANGED <<dash, align, beforeReload>>

\* setInterval(updateAlerts, 30 * 1000)
AlertsTick ==
  /\ Event
  /\ UpdateAlerts(alertsReqToken, municipalityId, barangayId)
  /\ UNCHANGED <<scopeVars, startup, populateReqs, applyReqs, alertView,
                 areaReqs, areaTable, mapVars, sensorVars, trendVars>>
  /\ UNCHANGED <<dash, align, beforeReload>>

\* setInterval(updateMapData, 3 * 60 * 1000)
MapTick ==
  /\ Event
  /\ UpdateMapData(municipalityId, barangayId)
  /\ UNCHANGED <<scopeVars, startup, populateReqs, applyReqs, alertVars,
                 sensorVars, trendVars>>
  /\ UNCHANGED <<dash, align, beforeReload>>

\* setInterval(loadTrendsChart, 10 * 1000) and the visibilitychange handler
TrendsTick ==
  /\ Event
  /\ LoadTrendsChart(municipalityId, barangayId, trendsRange, FALSE)
  /\ UNCHANGED <<scopeVars, startup, populateReqs, applyReqs, alertVars,
                 mapVars, sensorVars, trendsRange, normalize>>
  /\ UNCHANGED <<dash, align, beforeReload>>

\* the 10-second tick as a timer that keeps firing: not counted among the
\* events, bounded only by the number of cycles followed (MaxCycles)
TrendsTimer ==
  /\ LastId(trends) < MaxCycles
  /\ LoadTrendsChart(municipalityId, barangayId, trendsRange, FALSE)
  /\ UNCHANGED <<scopeVars, startup, populateReqs, applyReqs, alertVars,
                 mapVars, sensorVars, trendsRange, normalize, nEvents>>
  /\ UNCHANGED <<dash, align, beforeReload>>

\* 'click' on a button of #trends-range
RangeClick(r) ==
  /\ Event
  /\ trendsRange' = r
  /\ LoadTrendsChart(municipalityId, barangayId, r, FALSE)
  /\ UNCHANGED <<scopeVars, startup, populateReqs, applyReqs, alertVars,
                 mapVars, sensorVars, normalize>>
  /\ UNCHANGED <<dash, align, beforeReload>>

\* 'change' on #align-lines-toggle
AlignToggle ==
  /\ Event
  /\ normalize' = ~normalize
  /\ IF chart.hasRaw
     THEN /\ chart' = [chart EXCEPT
                         !.datasets = applyChartScaling(chart.rawSeries, ~normalize)]
          /\ UNCHANGED <<trends, trendsFetchInFlight>>
     ELSE LoadTrendsChart(municipalityId, barangayId, trendsRange, FALSE)
  /\ UNCHANGED <<scopeVars, startup, populateReqs, applyReqs, alertVars,
                 mapVars, sensorVars, trendsRange>>
  /\ UNCHANGED <<dash, align, beforeReload>>

\* 'resize' on window and the ResizeObserver of .chart-container-modern:
\* if (state._rawSeries) applyChartScaling(state._rawSeries); chart.resize()
ChartResize ==
  /\ Event
  /\ chart' = IF chart.hasRaw
              THEN [chart EXCEPT
                      !.datasets = applyChartScaling(chart.rawSeries, normalize)]
              ELSE chart
  /\ UNCHANGED <<scopeVars, startup, populateReqs, applyReqs, alertVars,
                 mapVars, sensorVars, trends, trendsFetchInFlight,
                 trendsRange, normalize>>
  /\ UNCHANGED <<dash, align, beforeReload>>

\* The page is reloaded: sessionStorage is kept, everything else starts again
\* as after DOMContentLoaded (state of the IIFE, the DOM, the fetches in
\* flight are gone). beforeReload notes the selection the page had and
\* whether its own restore chain had finished.
Reload ==
  /\ beforeReload' = [reloaded |-> TRUE,
                      settled  |-> startup = "loaded" /\ populateReqs = {},
                      m |-> municipalityId, b |-> barangayId]
  /\ UNCHANGED <<savedMuni, savedBrgy>>
  /\ municipalityId' = Null
  /\ barangayId' = Null
  /\ brgySel' = [options |-> {}, value |-> Null, disabled |-> TRUE]
  /\ startup' = "fetching"
  /\ populateReqs' = {}
  /\ applyReqs' = 0
  /\ alertsReqToken' = 1
  /\ alertReqs' = {NewAlertReq(1, Null, Null)}
  /\ alertView' = [badge |-> 0, title |-> "init", titleLevel |-> 0,
                   titleParam |-> "", msg |-> "init", details |-> NoItems,
                   list |-> NoItems]
  /\ areaReqs' = {}
  /\ areaTable' = [by |-> 0, rows |-> "init"]
  /\ mapSeq' = 1
  /\ mapReqs' = {NewMapReq(1, Null, Null)}
  /\ mapView' = [layers |-> 0, heat |-> 0, circles |-> {}, locations |-> 0,
                 lastUpdated |-> "Loading data..."]
  /\ sensorReqs' = 1
  /\ sensorView' = [p \in SensorParams |-> "init"]
  /\ trendsFetchInFlight' = TRUE
  /\ trendsRange' = "latest"
  /\ normalize' = FALSE
  /\ trends' = {NewCycle(1, Null, Null, "latest")}
  /\ chart' = [InitChart EXCEPT !.updatedAt = UpdatedNow]
  /\ nEvents' = 0
  /\ UNCHANGED <<dash, align>>

\* 'click' on #apply-thresholds-btn: await applyThresholdsNow()
ApplyClick ==
  /\ Event
  /\ applyReqs' = applyReqs + 1
  /\ UNCHANGED <<scopeVars, startup, populateReqs, alertVars, mapVars,
                 sensorVars, trendVars>>
  /\ UNCHANGED <<dash, align, beforeReload>>

\* ------------------------------------------------- selector data responses
\* response of GET /api/municipalities/ and the restore of the saved selection
StartupResponse(ok) ==
  /\ startup = "fetching"
  /\ startup' = IF ok THEN "loaded" ELSE "failed"
  /\ IF ok /\ savedMuni # Null
     THEN /\ municipalityId' = savedMuni
          /\ brgySel' = [brgySel EXCEPT !.disabled = TRUE]
          /\ populateReqs' = populateReqs \cup
               {[m |-> savedMuni, cont |-> "restore", brgy |-> savedBrgy, ev |-> 0]}
          /\ NoteScopeChange(TRUE)
     ELSE /\ UNCHANGED <<municipalityId, brgySel, populateReqs>>
          /\ UNCHANGED <<trends, trendsFetchInFlight, chart>>
  /\ UNCHANGED <<barangayId, savedMuni, savedBrgy, applyReqs, alertVars,
                 mapVars, sensorVars, trendsRange, normalize, nEvents>>
  /\ UNCHANGED <<dash, align, beforeReload>>

\* response of GET /api/all-barangays/ (populateBarangays resolves whether
\* the fetch succeeded or not) and the continuation chained to it
PopulateResponse(q, ok) ==
  /\ q \in populateReqs
  /\ populateReqs' = populateReqs \ {q}
  /\ LET opts == IF ok THEN BrgysOf(q.m) ELSE brgySel.options
         restored == q.cont = "restore" /\ q.brgy # Null
         b == IF restored THEN q.brgy ELSE barangayId
     IN  /\ brgySel' = [options  |-> opts,
                        value    |-> IF restored
                                     THEN (IF q.brgy \in opts THEN q.brgy ELSE Null)
                                     ELSE IF ok THEN Null ELSE brgySel.value,
                        disabled |-> FALSE]
         /\ barangayId' = b
         /\ RefreshAll(alertsReqToken, municipalityId, b, b # barangayId)
  /\ applyReqs' = IF q.cont = "restore" THEN applyReqs + 1 ELSE applyReqs
  /\ UNCHANGED <<municipalityId, savedMuni, savedBrgy, startup, alertView,
                 areaReqs, areaTable, sensorView, trendsRange, normalize, nEvents>>
  /\ UNCHANGED <<dash, align, beforeReload>>

\* What POST /api/apply-thresholds/ may come to: an HTTP status, or no
\* response at all (fetch rejects).
ApplyStatuses == {"200", "401", "403", "500", "network"}

\* the try block of applyThresholdsNow: 401 / 403 return at once, any other
\* non-2xx status and a rejected fetch throw, a 2xx calls updateAlerts()
ApplyTry(status) ==
  IF status = "network" THEN [thrown |-> TRUE, refresh |-> FALSE]
  ELSE IF status # "200"
       THEN IF status \in {"401", "403"}
            THEN [thrown |-> FALSE, refresh |-> FALSE]
            ELSE [thrown |-> TRUE, refresh |-> FALSE]
       ELSE [thrown |-> FALSE, refresh |-> TRUE]

\* applyThresholdsNow with its catch block left out
applyThresholdsNoCatch(status) ==
  [settled |-> IF ApplyTry(status).thrown THEN "rejected" ELSE "fulfilled",
   refresh |-> ApplyTry(status).refresh,
   logged  |-> FALSE]

\* applyThresholdsNow(): what is thrown is caught and logged by console.warn,
\* so the promise handed to the caller is always fulfilled
applyThresholdsNow(status) ==
  [settled |-> "fulfilled",
   refresh |-> ApplyTry(status).refresh,
   logged  |-> ApplyTry(status).thrown]

\* response of POST /api/apply-thresholds/: only a 2xx refreshes the alerts
ApplyResponse(status) ==
  /\ applyReqs > 0
  /\ applyReqs' = applyReqs - 1
  /\ IF applyThresholdsNow(status).refresh
     THEN UpdateAlerts(alertsReqToken, municipalityId, barangayId)
     ELSE UNCHANGED <<alertsReqToken, alertReqs>>
  /\ UNCHANGED <<scopeVars, startup, populateReqs, alertView, areaReqs,
                 areaTable, mapVars, sensorVars, trendVars, nEvents>>
  /\ UNCHANGED <<dash, align, beforeReload>>

\* ------------------------------------------------------ sensors responses
\* data.results of GET /api/sensor-data/?limit=5: readings with their sensor
\* type, timestamp and value
Reading(t, ts, v) == [sensor_type |-> t, timestamp |-> ts, value |-> v]
SensorPayloads ==
  { <<>>,
    << Reading("temperature", 2, 0), Reading("temperature", 1, 25),
       Reading("rainfall", 1, 25) >>,
    << Reading("temperature", 1, 25), Reading("humidity", 1, 25),
       Reading("rainfall", 1, 25), Reading("water_level", 1, 25),
       Reading("wind_speed", 1, 25) >> }

\* latest[t]: the reading of type t with the newest timestamp (the first one
\* among equal timestamps); latest.t?.value is undefined when there is none
RECURSIVE LatestValue(_, _, _)
LatestValue(readings, t, best) ==
  IF readings = <<>> THEN (IF best = <<>> THEN NoData ELSE best[1].value)
  ELSE LET rdg == Head(readings)
       IN  IF rdg.sensor_type = t
              /\ (best = <<>> \/ rdg.timestamp > best[1].timestamp)
           THEN LatestValue(Tail(readings), t, <<rdg>>)
           ELSE LatestValue(Tail(readings), t, best)

\* a missing value written as a zero
setValueZero(value) == IF value = NoData THEN "0" ELSE ToString(value)

\* setValue(id, value, suffix): '--' for null, undefined or NaN, otherwise the
\* formatted number
setValue(value) == IF value = NoData THEN "--" ELSE ToString(value)

SensorResponse(ok, readings) ==
  /\ sensorReqs > 0
  /\ sensorReqs' = sensorReqs - 1
  /\ IF ok
     THEN /\ sensorView' = [p \in SensorParams |->
                              setValue(LatestValue(readings, p, <<>>))]
          /\ mapView' = [mapView EXCEPT !.lastUpdated = "time"]
     ELSE /\ sensorView' = [p \in SensorParams |-> setValue(NoData)]
          /\ UNCHANGED mapView
  /\ UNCHANGED <<scopeVars, startup, populateReqs, applyReqs, alertVars,
                 mapSeq, mapReqs, trendVars, nEvents>>
  /\ UNCHANGED <<dash, align, beforeReload>>

\* ------------------------------------------------------- alerts responses
otherThanAlerts == <<scopeVars, startup, populateReqs, applyReqs, alertsReqToken,
                     mapVars, sensorVars, trendVars, nEvents>>

\* response of GET /api/flood-alerts/: a failure leaves everything as it is;
\* a current response keeps the highest considered alert and awaits
\* fetchThresholdSeverity(); nothing is written yet
AlertsResponse(r, ok, results) ==
  /\ r \in alertReqs
  /\ r.stage = "alerts"
  /\ IF ~ok \/ IsStale(r.token, alertsReqToken)
     THEN alertReqs' = alertReqs \ {r}
     ELSE alertReqs' = (alertReqs \ {r}) \cup
            {[r EXCEPT !.stage = "sev", !.m = municipalityId, !.b = barangayId,
                       !.highest = Highest(results, barangayId),
                       !.tied = Tied(results, barangayId)]}
  /\ UNCHANGED <<alertView, areaReqs, areaTable>>
  /\ UNCHANGED otherThanAlerts
  /\ UNCHANGED <<dash, align, beforeReload>>

\* updateAffectedAreas(ids) called by the invocation holding token tok
UpdateAffectedAreas(ids, tok) ==
  IF ids = {}
  THEN /\ areaTable' = [by |-> tok, rows |-> "none"]
       /\ UNCHANGED areaReqs
  ELSE /\ areaReqs' = areaReqs \cup
            {[ids |-> ids, by |-> tok, m |-> municipalityId, b |-> barangayId]}
       /\ UNCHANGED areaTable

\* fetchThresholdSeverity() has settled: badge, title and message are
\* written, the affected areas updated, fetchParameterStatus() awaited
SevResponse(r, ok, items) ==
  /\ r \in alertReqs
  /\ r.stage = "sev"
  /\ IF IsStale(r.token, alertsReqToken)
     THEN /\ alertReqs' = alertReqs \ {r}
          /\ UNCHANGED <<alertView, areaReqs, areaTable>>
     ELSE LET sev == fetchThresholdSeverity(ok, items)
          IN  /\ alertReqs' = (alertReqs \ {r}) \cup
                    {[r EXCEPT !.stage = "pstatus", !.m = municipalityId,
                               !.b = barangayId]}
              /\ alertView' = AlertStatus(r.highest, sev, alertView)
              /\ UpdateAffectedAreas(AffectedArg(r.highest, sev), r.token)
  /\ UNCHANGED otherThanAlerts
  /\ UNCHANGED <<dash, align, beforeReload>>

\* fetchParameterStatus() has settled; listed = FALSE is a page that does not
\* define renderParamStatusList, where the call throws into the catch that
\* ignores it
PStatusResponse(r, ok, items, listed) ==
  /\ r \in alertReqs
  /\ r.stage = "pstatus"
  /\ alertReqs' = alertReqs \ {r}
  /\ IF IsStale(r.token, alertsReqToken) \/ ~listed
     THEN UNCHANGED alertView
     ELSE alertView' = ParamStatusApplied(alertView, ok, items)
  /\ UNCHANGED <<areaReqs, areaTable>>
  /\ UNCHANGED otherThanAlerts
  /\ UNCHANGED <<dash, align, beforeReload>>

\* response of GET /api/barangays/ started by updateAffectedAreas
AreaResponse(q, ok) ==
  /\ q \in areaReqs
  /\ areaReqs' = areaReqs \ {q}
  /\ LET returned == IF q.b # Null THEN {q.b}
                     ELSE IF q.m # Null THEN BrgysOf(q.m) ELSE BrgyIds
     IN  areaTable' = [by |-> q.by,
                       rows |-> IF ~ok THEN "unable"
                                ELSE IF q.ids \cap returned = {} THEN "none"
                                ELSE "rows"]
  /\ UNCHANGED <<alertsReqToken, alertReqs, alertView>>
  /\ UNCHANGED <<scopeVars, startup, populateReqs, applyReqs, mapVars,
                 sensorVars, trendVars, nEvents>>
  /\ UNCHANGED <<dash, align, beforeReload>>

\* ---------------------------------------------------------- map responses
otherThanMap == <<scopeVars, startup, populateReqs, applyReqs, alertVars,
                  mapSeq, sensorVars, trendVars, nEvents>>

\* the barangays /api/map-data/ returns for a scope
MapBarangays(m, b) ==
  IF b # Null THEN {b} ELSE IF m # Null THEN BrgysOf(m) ELSE BrgyIds

\* renderLocationsList(barangays) is called by updateMapData and defined
\* outside modern_dashboard.js: it fills the list of locations
renderLocationsList(view, id) == [view EXCEPT !.locations = id]

\* response of GET /api/map-data/: layers are redrawn from it and
\* fetchHeatmapPoints() is awaited; a failure only sets the status text.
\* listed = FALSE is a page that does not define renderLocationsList: the
\* call throws after the layers are drawn and the .catch sets the status.
MapResponse(r, ok, listed) ==
  /\ r \in mapReqs
  /\ r.stage = "map"
  /\ IF ok /\ listed
     THEN /\ mapReqs' = (mapReqs \ {r}) \cup
               {[r EXCEPT !.stage = "heat", !.m = municipalityId, !.b = barangayId]}
          /\ mapView' = renderLocationsList(
                           [mapView EXCEPT !.layers = r.id,
                                           !.circles = MapBarangays(r.m, r.b)], r.id)
     ELSE IF ok
     THEN /\ mapReqs' = mapReqs \ {r}
          /\ mapView' = [mapView EXCEPT !.layers = r.id,
                                        !.circles = MapBarangays(r.m, r.b),
                                        !.lastUpdated = "Unable to load map data"]
     ELSE /\ mapReqs' = mapReqs \ {r}
          /\ mapView' = [mapView EXCEPT !.lastUpdated = "Unable to load map data"]
  /\ UNCHANGED otherThanMap
  /\ UNCHANGED <<dash, align, beforeReload>>

\* fetchHeatmapPoints() has settled (server points, or points built from the
\* map data of this invocation); the status text becomes the current time
HeatResponse(r) ==
  /\ r \in mapReqs
  /\ r.stage = "heat"
  /\ mapReqs' = mapReqs \ {r}
  /\ mapView' = [mapView EXCEPT !.heat = r.id, !.lastUpdated = "time"]
  /\ UNCHANGED otherThanMap
  /\ UNCHANGED <<dash, align, beforeReload>>

\* ------------------------------------------------------- trends responses
otherThanTrends == <<scopeVars, startup, populateReqs, applyReqs, alertVars,
                     mapVars, sensorVars, trendsRange, normalize, nEvents>>

\* the five fetches of the next stage are issued with filters (m, b)
NextStage(t, n, m, b) ==
  [t EXCEPT !.stage = n, !.m = m, !.b = b, !.range = trendsRange,
            !.log = Append(@, StageEntry(m, b, trendsRange))]

\* the result of the stage that has just settled, noted in the cycle's log
Settled(t, res, payload) ==
  [t EXCEPT !.log[Len(t.log)] =
     [@ EXCEPT !.res = res,
               !.failed = SettledStage(t.range, payload).failed,
               !.rejected = SettledStage(t.range, payload).rejected]]

\* the .finally() of loadTrendsChart
Finally(c) == [c EXCEPT !.updatedAt = FixUpdatedAt(@)]

\* a fallback that skips the municipality stage and goes straight to the
\* unfiltered one
SkipMunicipality(stage, m, b) ==
  IF stage \in {1, 2} /\ (m # Null \/ b # Null) THEN 3 ELSE 0

\* Which stage follows an empty one: after runOnce(true) the municipality
\* stage if a barangay is selected, else the unfiltered stage if a
\* municipality is selected; after runOnce(false) the unfiltered stage if a
\* municipality is selected; 0 = none, show the empty state.
FallbackStage(stage, m, b) ==
  IF stage = 1 /\ b # Null THEN 2
  ELSE IF stage \in {1, 2} /\ m # Null THEN 3
  ELSE 0

\* What the .then() callbacks of loadTrendsChart do with the settled results
\* of the stage in flight of cycle t: render, issue the next stage, or show
\* the empty state. Gives the chart, the cycle and whether the chain is
\* finished (and the .finally() has run).
StageOutcome(t, merged) ==
  LET nxt    == FallbackStage(t.stage, municipalityId, barangayId)
  IN  IF ~StageEmpty(merged)
      THEN [chart |-> Finally(renderTrendsFromMerged(chart, merged,
                        t.stage # 1, trendsRange, normalize,
                        [m |-> t.m, b |-> t.b, id |-> t.id])),
            res |-> "data", cycle |-> [t EXCEPT !.stage = 0], finished |-> TRUE]
      ELSE IF nxt = 2
      THEN [chart |-> chart, res |-> "empty",
            cycle |-> NextStage(t, 2, municipalityId, Null), finished |-> FALSE]
      ELSE IF nxt = 3
      THEN [chart |-> chart, res |-> "empty",
            cycle |-> NextStage(t, 3, Null, Null), finished |-> FALSE]
      ELSE [chart |-> Finally(showTrendsNoData(chart, barangayId)),
            res |-> "empty", cycle |-> [t EXCEPT !.stage = 0], finished |-> TRUE]

\* the .finally() left out: the flag stays as it is
FlagKept(finished, flag) == flag

\* state._trendsFetchInFlight after a callback of the chain: the .finally()
\* runs once the whole chain has finished and resets it
FlagAfter(finished, flag) == IF finished THEN FALSE ELSE flag

\* Promise.allSettled of the stage in flight of cycle t has resolved with the
\* given network results
TrendsResponse(t, payload) ==
  /\ t \in trends
  /\ t.stage # 0
  /\ ~t.hung
  /\ LET out == StageOutcome(Settled(t, "pending", payload),
                              SettledStage(t.range, payload).merged)
         done == [out.cycle EXCEPT !.log[Len(t.log)].res = out.res]
     IN  /\ chart' = out.chart
         /\ trends' = (trends \ {t}) \cup {done}
         /\ trendsFetchInFlight' = FlagAfter(out.finished, trendsFetchInFlight)
  /\ UNCHANGED otherThanTrends
  /\ UNCHANGED <<dash, align, beforeReload>>

\* an exception escapes the .then() callback of the stage in flight of cycle
\* t: nothing is rendered, the chain rejects and the .finally() runs
TrendsThrow(t) ==
  /\ t \in trends
  /\ t.stage # 0
  /\ ~t.hung
  /\ trends' = (trends \ {t}) \cup
                 {[t EXCEPT !.stage = 0, !.log[Len(t.log)].res = "thrown"]}
  /\ chart' = Finally(chart)
  /\ trendsFetchInFlight' = FlagAfter(TRUE, trendsFetchInFlight)
  /\ UNCHANGED otherThanTrends
  /\ UNCHANGED <<dash, align, beforeReload>>

\* the network never answers the stage in flight of cycle t
TrendsHang(t) ==
  /\ t \in trends
  /\ t.stage # 0
  /\ ~t.hung
  /\ trends' = (trends \ {t}) \cup {[t EXCEPT !.hung = TRUE]}
  /\ UNCHANGED <<trendsFetchInFlight, chart>>
  /\ UNCHANGED otherThanTrends
  /\ UNCHANGED <<dash, align, beforeReload>>

\* ----------------------------------------------------------- dashboard.js
\* The alert status of static/js/dashboard.js, the script of the other
\* dashboard page: checkActiveAlerts, the status part of processAlertsData and
\* updateAlertStatus, read as the functions are written (the block left
\* behind after processAlertsData, lines 607-629, repeats the fallback of
\* checkActiveAlerts and is not part of any function).  dash.reqs holds the
\* fetches in flight; DOMContentLoaded has called checkActiveAlerts() once.
modernVars == <<scopeVars, startup, populateReqs, applyReqs, alertVars,
                mapVars, sensorVars, trendVars>>

\* checkActiveAlerts(): GET /api/flood-alerts/?active=true with the filters
\* of the selected location
checkActiveAlerts(d) ==
  [d EXCEPT !.seq = @ + 1,
            !.reqs = @ \cup {[id |-> d.seq + 1, kind |-> "alerts"]}]

\* updateAlertStatus(highestAlert): null gives 'Normal' / 'No active alerts';
\* otherwise the text of levels 1..5 (other levels leave the text) and a
\* fetch of the alert count
updateAlertStatus(d, highest) ==
  IF highest.isNull
  THEN [d EXCEPT !.statusText = "Normal", !.alertsCount = "No active alerts"]
  ELSE [d EXCEPT
          !.statusText = IF highest.level \in 1..5
                         THEN <<"ADVISORY", "WATCH", "WARNING", "EMERGENCY",
                                "CATASTROPHIC">>[highest.level]
                         ELSE @,
          !.seq = @ + 1,
          !.reqs = @ \cup {[id |-> d.seq + 1, kind |-> "count"]}]

\* processAlertsData(data): the alert of highest severity, or null when
\* data.results is empty
processAlertsData(d, results) == updateAlertStatus(d, Highest(results, Null))

\* setInterval(checkActiveAlerts, 30000)
DashAlertsTick ==
  /\ Event
  /\ dash' = checkActiveAlerts(dash)
  /\ UNCHANGED <<modernVars, align, beforeReload>>

\* another script sets window.selectedMunicipality and window.locationChanged;
\* checkLocationChange() then calls checkActiveAlerts()
DashLocationChange(m) ==
  /\ Event
  /\ m # dash.selectedMunicipality
  /\ dash' = checkActiveAlerts([dash EXCEPT !.selectedMunicipality = m])
  /\ UNCHANGED <<modernVars, align, beforeReload>>

\* the response of the fetch of checkActiveAlerts: a failure goes to the
\* .catch, which calls updateAlertStatus(null); an empty list with a
\* municipality selected starts the unfiltered retry
DashAlertsResponse(q, ok, results) ==
  /\ q \in dash.reqs
  /\ q.kind = "alerts"
  /\ LET d == [dash EXCEPT !.reqs = @ \ {q}]
     IN  dash' =
           IF ~ok THEN updateAlertStatus(d, NoAlert)
           ELSE IF results = <<>> /\ d.selectedMunicipality # Null
                   /\ ~d.isRetryAlertsFetch
           THEN [d EXCEPT !.isRetryAlertsFetch = TRUE,
                          !.seq = @ + 1,
                          !.reqs = @ \cup {[id |-> d.seq + 1, kind |-> "global"]}]
           ELSE processAlertsData(d, results)
  /\ UNCHANGED <<modernVars, align, nEvents, beforeReload>>

\* the response of the unfiltered retry: a failure is only logged
DashGlobalResponse(q, ok, results) ==
  /\ q \in dash.reqs
  /\ q.kind = "global"
  /\ LET d == [dash EXCEPT !.reqs = @ \ {q}, !.isRetryAlertsFetch = FALSE]
     IN  dash' = IF ok THEN processAlertsData(d, results) ELSE d
  /\ UNCHANGED <<modernVars, align, nEvents, beforeReload>>

\* the response of the alert count fetch of updateAlertStatus (no .catch)
DashCountResponse(q, ok) ==
  /\ q \in dash.reqs
  /\ q.kind = "count"
  /\ dash' = [dash EXCEPT !.reqs = @ \ {q},
                          !.alertsCount = IF ok THEN "count" ELSE @]
  /\ UNCHANGED <<modernVars, align, nEvents, beforeReload>>

NextDashboard ==
  \/ DashAlertsTick
  \/ \E m \in MuniIds \cup {Null} : DashLocationChange(m)
  \/ \E q \in dash.reqs, ok \in BOOLEAN, res \in AlertPayloads :
        DashAlertsResponse(q, ok, res)
  \/ \E q \in dash.reqs, ok \in BOOLEAN, res \in AlertPayloads :
        DashGlobalResponse(q, ok, res)
  \/ \E q \in dash.reqs, ok \in BOOLEAN : DashCountResponse(q, ok)

SpecDashboard == Init /\ [][NextDashboard]_vars

\* ------------------------------------------- the series functions, alone
\* mergeSeries and filterMergedByRange followed on inputs of their own: the
\* list handed to mergeSeries holds the five chart series in the order of
\* loadTrendsChart (or nothing at all), each with as many values as labels
\* (doFetch cuts them to the same length); filterMergedByRange is handed the
\* merge of the five, as in renderTrendsFromMerged.
MaxLabels == 3

\* the five series: temperature with the labels tl and the values 30, 31, ..,
\* rainfall with the labels rl and the values 5, 12, the others empty
FiveSeries(tl, rl) ==
  [i \in 1..5 |->
     [key    |-> ChartKeys[i],
      labels |-> IF i = 1 THEN tl ELSE IF i = 3 THEN rl ELSE <<>>,
      values |-> IF i = 1 THEN [j \in 1..Len(tl) |-> 29 + j]
                 ELSE IF i = 3 THEN [j \in 1..Len(rl) |-> <<5, 12>>[j]]
                 ELSE <<>>]]

\* temperature with any labels, up to MaxLabels of them and in any order;
\* rainfall with none, two, another spelling, one that does not parse, or
\* one given twice
SeriesLists ==
  {<<>>} \cup
  {FiveSeries(tl, rl) :
     tl \in UNION {[1..n -> LabelNames] : n \in 0..MaxLabels},
     rl \in {<<>>, <<"d05", "d10">>, <<"d10z">>, <<"bad", "d01">>,
             <<"d03", "d03">>}}

\* 'latest' and the keys of mapDays
RangeKeys == {"latest"} \cup DOMAIN MapDays

\* the series of a merged set, each with the labels of the set
SeriesOfMerged(merged) ==
  LET keys == SelectSeq(ChartKeys, LAMBDA k : k \in DOMAIN merged.series)
  IN  [i \in 1..Len(keys) |->
         [key |-> keys[i], labels |-> merged.labels,
          values |-> merged.series[keys[i]]]]

InitAlign ==
  /\ InitPage
  /\ savedMuni = Null
  /\ savedBrgy = Null
  /\ align \in {[NoAlign EXCEPT !.step = "input", !.engine = e, !.arr = a] :
                   e \in {"insertion", "tim"}, a \in SeriesLists}

\* mergeSeries(arr)
AlignMerge ==
  /\ align.step = "input"
  /\ align' = [align EXCEPT !.step = "merged",
                            !.merged = mergeSeriesOn(align.engine, align.arr)]
  /\ UNCHANGED <<modernVars, dash, nEvents, beforeReload>>

\* mergeSeries over the series of the merged set
AlignAgain ==
  /\ align.step = "merged"
  /\ align' = [align EXCEPT
                 !.step = "again",
                 !.again = mergeSeriesOn(align.engine, SeriesOfMerged(align.merged))]
  /\ UNCHANGED <<modernVars, dash, nEvents, beforeReload>>

\* filterMergedByRange(merged, rangeKey)
AlignFilter(rangeKey) ==
  /\ align.step = "merged"
  /\ DOMAIN align.merged.series = FiveKeys
  /\ align' = [align EXCEPT
                 !.step = "filtered",
                 !.range = rangeKey,
                 !.filtered = filterMergedByRange(align.merged, rangeKey)]
  /\ UNCHANGED <<modernVars, dash, nEvents, beforeReload>>

NextAlign ==
  \/ AlignMerge
  \/ AlignAgain
  \/ \E r \in RangeKeys : AlignFilter(r)

SpecAlign == InitAlign /\ [][NextAlign]_vars

\* ------------------------------------------------------------ specification
Events ==
  \/ \E v \in MuniIds \cup {Null} : MunicipalityChange(v)
  \/ \E v \in BrgyIds \cup {Null} : BarangayChange(v)
  \/ \E b \in BrgyIds : CircleClick(b)
  \/ SensorTick
  \/ AlertsTick
  \/ MapTick
  \/ TrendsTick
  \/ \E r \in Ranges : RangeClick(r)
  \/ AlignToggle
  \/ ApplyClick

SelectorResponses ==
  \/ \E ok \in BOOLEAN : StartupResponse(ok)
  \/ \E q \in populateReqs, ok \in BOOLEAN : PopulateResponse(q, ok)

AlertResponses ==
  \/ \E st \in ApplyStatuses : ApplyResponse(st)
  \/ \E r \in alertReqs, ok \in BOOLEAN, res \in AlertPayloads :
        AlertsResponse(r, ok, res)
  \/ \E r \in alertReqs, ok \in BOOLEAN, items \in ItemPayloads :
        SevResponse(r, ok, items)
  \/ \E r \in alertReqs, ok \in BOOLEAN, items \in ItemPayloads, listed \in BOOLEAN :
        PStatusResponse(r, ok, items, listed)
  \/ \E q \in areaReqs, ok \in BOOLEAN : AreaResponse(q, ok)

MapResponses ==
  \/ \E r \in mapReqs, ok \in BOOLEAN, listed \in BOOLEAN : MapResponse(r, ok, listed)
  \/ \E r \in mapReqs : HeatResponse(r)

SensorResponses ==
  \E ok \in BOOLEAN, readings \in SensorPayloads : SensorResponse(ok, readings)

TrendSettles ==
  \E t \in trends, payload \in StagePayloads : TrendsResponse(t, payload)

TrendResponses ==
  \/ TrendSettles
  \/ \E t \in trends : TrendsHang(t)

Next ==
  \/ Events
  \/ SelectorResponses
  \/ AlertResponses
  \/ MapResponses
  \/ SensorResponses
  \/ TrendResponses

Spec == Init /\ [][Next]_vars

\* the user actions that change the selected scope
ScopeEvents ==
  \/ \E v \in MuniIds \cup {Null} : MunicipalityChange(v)
  \/ \E v \in BrgyIds \cup {Null} : BarangayChange(v)
  \/ \E b \in BrgyIds : CircleClick(b)

\* the map data of the first updateMapData() arrives and the circles are drawn
FirstMapDrawn == \E r \in mapReqs : r.id = 1 /\ MapResponse(r, TRUE, TRUE)

\* the continuations of updateAlerts
AlertStages ==
  \/ \E r \in alertReqs, ok \in BOOLEAN, res \in AlertPayloads :
        AlertsResponse(r, ok, res)
  \/ \E r \in alertReqs, ok \in BOOLEAN, items \in ItemPayloads :
        SevResponse(r, ok, items)
  \/ \E r \in alertReqs, ok \in BOOLEAN, items \in ItemPayloads, listed \in BOOLEAN :
        PStatusResponse(r, ok, items, listed)

\* The scope handlers alone: the selection events, the selector and map data
\* that enable them, and the alerts list answering or failing.
NextScope ==
  \/ ScopeEvents
  \/ AlertsTick
  \/ SelectorResponses
  \/ FirstMapDrawn
  \/ \E r \in alertReqs, ok \in BOOLEAN, res \in AlertPayloads :
        AlertsResponse(r, ok, res)

SpecScope == Init /\ [][NextScope]_vars

\* The selection across page reloads: the selection events, the selector
\* responses (with the restore chain), the first map (its circles can be
\* clicked) and the reload of the page.
NextReload ==
  \/ ScopeEvents
  \/ SelectorResponses
  \/ FirstMapDrawn
  \/ Reload

SpecReload == Init /\ [][NextReload]_vars

\* The apply-thresholds requests: the button and the restored selection call
\* applyThresholdsNow; what the POST comes to; the alerts list and the
\* threshold severity answering the updateAlerts in flight.
NextApply ==
  \/ ApplyClick
  \/ SelectorResponses
  \/ \E st \in ApplyStatuses : ApplyResponse(st)
  \/ \E r \in alertReqs, ok \in BOOLEAN, res \in AlertPayloads :
        AlertsResponse(r, ok, res)
  \/ \E r \in alertReqs, ok \in BOOLEAN, items \in ItemPayloads :
        SevResponse(r, ok, items)

SpecApply == Init /\ [][NextApply]_vars

\* The affected-areas table: the updateAlerts of the page load, of the
\* restored selection and of the 30-second tick, their alerts list and
\* threshold severity, and the barangay details of updateAffectedAreas.
NextAreas ==
  \/ AlertsTick
  \/ SelectorResponses
  \/ \E r \in alertReqs, ok \in BOOLEAN, res \in AlertPayloads :
        AlertsResponse(r, ok, res)
  \/ \E r \in alertReqs, ok \in BOOLEAN, items \in ItemPayloads :
        SevResponse(r, ok, items)
  \/ \E q \in areaReqs, ok \in BOOLEAN : AreaResponse(q, ok)

SpecAreas == Init /\ [][NextAreas]_vars

\* The severity computation of updateAlerts over the wider response bodies:
\* the invocations of the page load and of the restored selection, and every
\* continuation of updateAlerts.
NextStatus ==
  \/ SelectorResponses
  \/ \E r \in alertReqs, ok \in BOOLEAN, res \in AlertLists :
        AlertsResponse(r, ok, res)
  \/ \E r \in alertReqs, ok \in BOOLEAN, items \in ItemLists :
        SevResponse(r, ok, items)
  \/ \E r \in alertReqs, ok \in BOOLEAN, items \in ItemPayloads, listed \in BOOLEAN :
        PStatusResponse(r, ok, items, listed)

SpecStatus == Init /\ [][NextStatus]_vars

\* The alerts stream: the events that call updateAlerts, the selector and map
\* data that enable the selection events, and the continuations of
\* updateAlerts; the responses of the other streams stay pending.
NextAlerts ==
  \/ ScopeEvents
  \/ AlertsTick
  \/ SelectorResponses
  \/ FirstMapDrawn
  \/ AlertStages

SpecAlerts == Init /\ [][NextAlerts]_vars

\* The trends stream: the events that call loadTrendsChart or change the
\* selection, and the settling of the stages of the cycles.
NextTrends ==
  \/ ScopeEvents
  \/ TrendsTick
  \/ \E r \in Ranges : RangeClick(r)
  \/ AlignToggle
  \/ SelectorResponses
  \/ FirstMapDrawn
  \/ TrendSettles

SpecTrends == Init /\ [][NextTrends]_vars

\* The trends stream on a network that may leave a stage unanswered for ever.
NextTrendsHang ==
  \/ NextTrends
  \/ \E t \in trends : TrendsHang(t)

SpecTrendsHang == Init /\ [][NextTrendsHang]_vars

\* The trends stream where a callback of a cycle may throw.
NextTrendsThrow ==
  \/ NextTrends
  \/ \E t \in trends : TrendsThrow(t)

SpecTrendsThrow == Init /\ [][NextTrendsThrow]_vars

\* The trends stream with a tick that keeps firing and fetches that always
\* complete: setInterval(loadTrendsChart, 10 * 1000) fires for as long as the
\* page lives, and every stage in flight settles.
NextTrendsFair ==
  \/ ScopeEvents
  \/ \E r \in Ranges : RangeClick(r)
  \/ SelectorResponses
  \/ FirstMapDrawn
  \/ TrendSettles
  \/ TrendsTimer

SpecTrendsFair ==
  /\ Init
  /\ [][NextTrendsFair]_vars
  /\ WF_vars(TrendsTimer)
  /\ WF_vars(TrendSettles)

\* The trends stream with the resize events of the chart.
NextRescale ==
  \/ NextTrends
  \/ ChartResize

SpecRescale == Init /\ [][NextRescale]_vars

\* The map stream: the events that call updateMapData, the map responses and
\* the sensor responses (which share the map-last-updated text).
NextMap ==
  \/ ScopeEvents
  \/ MapTick
  \/ SensorTick
  \/ SelectorResponses
  \/ MapResponses
  \/ SensorResponses

SpecMap == Init /\ [][NextMap]_vars

\* ================================================================== claims

\* --------------------------------------------------------------------- C1
\* a continuation of the updateAlerts invocation r runs in this step
AlertsContinuation(r) ==
  \/ \E ok \in BOOLEAN, res \in AlertPayloads : AlertsResponse(r, ok, res)
  \/ \E ok \in BOOLEAN, items \in ItemPayloads : SevResponse(r, ok, items)
  \/ \E ok \in BOOLEAN, items \in ItemPayloads, listed \in BOOLEAN :
        PStatusResponse(r, ok, items, listed)

\* C1: whatever the interleaving of updateAlerts calls, token bumps and
\* arrivals, a step in which a response of an alerts invocation (or its
\* threshold / parameter-status continuation) changes the alert status view is
\* a step of an invocation whose captured token equals state._alertsReqToken
\* at that moment; an invocation with an earlier token never changes the view.
C1_AlertsFence ==
  [][\A r \in alertReqs :
       (AlertsContinuation(r) /\ alertView' # alertView)
          => r.token = alertsReqToken]_vars

\* the selection was changed (view reset to 'Loading status...', token
\* bumped, no new alerts fetch yet), and every older invocation has been
\* answered without touching the view
C1_StaleAnswered ==
  /\ alertView = ResetAlertView
  /\ alertReqs = {}
  /\ populateReqs # {}
  /\ alertsReqToken > 1

\* --------------------------------------------------------------------- C2
\* the texts and data of the trends chart
ChartView(c) ==
  [labels |-> c.labels, datasets |-> c.datasets, updatedAt |-> c.updatedAt]

\* C2: when the selected scope changed while a trends cycle was in flight,
\* the settling of a stage of that cycle leaves the labels, the datasets and
\* the last-updated text of the chart as they were.
C2_StaleTrendsDiscarded ==
  [][\A t \in trends :
       (t.changed /\ \E p \in StagePayloads : TrendsResponse(t, p))
          => ChartView(chart') = ChartView(chart)]_vars

\* --------------------------------------------------------------------- C3
\* C3: the layers and the heat points of the map are never redrawn from the
\* response of a request issued earlier than the one they were drawn from
\* (mapView.layers / mapView.heat hold the issue number of that request).
C3_MapLastIssuedWins ==
  [][mapView'.layers >= mapView.layers /\ mapView'.heat >= mapView.heat]_vars

C5_OneTrendsCycle ==
  /\ Cardinality(InFlight(trends)) <= 1
  /\ InFlight(trends) # {} => trendsFetchInFlight

\* a timer tick or a click on the current range called loadTrendsChart while
\* the first cycle was still in flight, and nothing was issued
C5_CallIgnored ==
  /\ nEvents = 1
  /\ sensorReqs = 1
  /\ alertsReqToken = 1
  /\ ~normalize
  /\ \E t \in InFlight(trends) : t.id = 1
  /\ Cardinality(trends) = 1

\* --------------------------------------------------------------------- C6
\* C6: when a stage of a trends cycle is never answered, a later trends tick
\* starts a fresh cycle.
C6_HungSuperseded ==
  [][(TrendsTick /\ \E t \in trends : t.hung)
        => \E t \in trends' : t.id > LastId(trends)]_vars

\* --------------------------------------------------------------------- C7
\* C7: at most one flood-alerts request of updateAlerts is pending at a time.
C7_OneAlertsRequest ==
  Cardinality({r \in alertReqs : r.stage = "alerts"}) <= 1

\* --------------------------------------------------------------------- C8
\* the filters of the three scopes, narrowest first
ScopeChain(m, b) ==
  << [m |-> m, b |-> b], [m |-> m, b |-> Null], [m |-> Null, b |-> Null] >>

\* C8: for a cycle started with both a barangay and a municipality selected
\* and no change of selection meanwhile, the stages are fetched in the order
\* barangay+municipality, municipality, unfiltered; a stage is fetched only
\* after the one before it settled empty; and when the first two are empty
\* and the third has data, the chart is rendered from the unfiltered data
\* with the fallback annotation.
C8_FallbackOrder ==
  \A t \in trends :
    (~t.changed /\ t.log[1].m # Null /\ t.log[1].b # Null) =>
      /\ Len(t.log) <= 3
      /\ \A i \in 1..Len(t.log) :
            /\ t.log[i].m = ScopeChain(t.log[1].m, t.log[1].b)[i].m
            /\ t.log[i].b = ScopeChain(t.log[1].m, t.log[1].b)[i].b
      /\ \A i \in 1..(Len(t.log) - 1) : t.log[i].res = "empty"
      /\ (t.stage = 0 /\ Len(t.log) = 3 /\ t.log[3].res = "data") =>
            /\ chart.src = [m |-> Null, b |-> Null, id |-> t.id]
            /\ chart.updatedAt.kind = "at"
            /\ chart.updatedAt.fallback

\* a cycle for a barangay of a municipality went through all three scopes
\* and rendered the unfiltered data
C8_GlobalRendered ==
  \E t \in trends :
    /\ ~t.changed /\ t.log[1].m # Null /\ t.log[1].b # Null
    /\ t.stage = 0 /\ Len(t.log) = 3 /\ t.log[3].res = "data"

\* --------------------------------------------------------------------- C9
\* the network answers of a stage with every failure replaced by an empty
\* body (and no retry answer after a failed first attempt)
Degraded(payload) ==
  [i \in 1..5 |->
     Both(IF payload[i].first.ok THEN payload[i].first ELSE RawEmpty,
          IF payload[i].first.ok /\ payload[i].retry.ok
          THEN payload[i].retry ELSE RawEmpty)]

\* C9: a failed chart fetch gives a fulfilled empty series, so no settled
\* result of any stage is a rejection; and the stage is then handled (render,
\* next broader scope, or empty state) exactly as if the failed fetches had
\* returned empty bodies.
C9_FailureIsEmpty ==
  /\ \A t \in trends : \A i \in 1..Len(t.log) : ~t.log[i].rejected
  /\ \A t \in InFlight(trends) : \A p \in StagePayloads :
        /\ \A i \in 1..5 :
              FetchChartNoCatch(t.range, p[i].first, p[i].retry).status = "rejected"
                 => fetchChart(t.range, p[i].first, p[i].retry)
                      = [status |-> "fulfilled", value |-> EmptySeries]
        /\ StageOutcome(t, SettledStage(t.range, p).merged)
             = StageOutcome(t, MergeResults(runOnce(t.range, Degraded(p))))

\* a stage with a failed fetch settled empty and the next broader scope was
\* fetched
C9_FailedThenBroader ==
  \E t \in trends :
    /\ Len(t.log) >= 2
    /\ t.log[1].failed
    /\ t.log[1].res = "empty"

\* -------------------------------------------------------------------- C10
\* the overlay of a cycle with a single applicable scope that was empty:
\* nothing selected, the unfiltered stage empty
SingleScopeOverlay == showTrendsNoData(chart, Null).overlay

\* C10: after a cycle that tried every scope of a fallback chain of more than
\* one scope and found all empty, the overlay message differs from the one
\* shown after a cycle with a single applicable scope that was empty.
C10_ExhaustedDistinct ==
  \A t \in trends :
    ( /\ t.stage = 0
      /\ ~t.changed
      /\ Len(t.log) >= 2
      /\ \A i \in 1..Len(t.log) : t.log[i].res = "empty" )
    => chart.overlay # SingleScopeOverlay

\* --------------------------------------------------------------- C11..C15
\* the levels a settled threshold fetch and a kept highest alert stand for
ThresholdLevelOf(ok, items) ==
  IF ~ok \/ items = <<>> THEN 0
  ELSE CHOOSE l \in {items[i].level : i \in 1..Len(items)} :
         \A i \in 1..Len(items) : items[i].level <= l
DeclaredLevelOf(r) == IF r.highest.isNull THEN 0 ELSE r.highest.level

\* the step in which the invocation r, still current, writes the status from
\* the settled threshold fetch
StatusWritten(r, ok, items) ==
  /\ r.stage = "sev" /\ r \notin alertReqs'
  /\ ~IsStale(r.token, alertsReqToken)
  /\ SevResponse(r, ok, items)

\* the step in which the invocation r, still current, takes the alerts of a
\* successful response
AlertsTaken(r, res) ==
  /\ r.stage = "alerts" /\ r \notin alertReqs'
  /\ ~IsStale(r.token, alertsReqToken)
  /\ AlertsResponse(r, TRUE, res)

\* C11: whenever the status is written, the alert-driven presentation (alert
\* title, affected areas of the highest alert requested) is chosen if and only
\* if the declared level d and the threshold level t satisfy d >= t and d > 0.
C11_AlertSourceIff ==
  [][\A r \in alertReqs, ok \in BOOLEAN, items \in ItemLists :
        StatusWritten(r, ok, items) =>
          LET d == DeclaredLevelOf(r)
              t == ThresholdLevelOf(ok, items)
          IN  /\ (alertView'.title = "alert") <=> (d >= t /\ d > 0)
              /\ (areaReqs' # areaReqs) => (d >= t /\ d > 0)]_vars

\* C12: the highest alert kept by an invocation has the maximum level of the
\* considered alerts, and the badge written is the maximum of that level
\* (0 if none) and of the maximum item level of the threshold response (0 if
\* the fetch failed).
C12_BadgeIsMax ==
  [][/\ \A r \in alertReqs, res \in AlertLists :
          AlertsTaken(r, res) =>
             LET idx == {i \in 1..Len(res) :
                           barangayId = Null \/ barangayId \in res[i].affected}
             IN  \E q \in alertReqs' \ alertReqs :
                    /\ \A i \in idx : res[i].level <= DeclaredLevelOf(q)
                    /\ idx # {} => \E i \in idx : res[i].level = DeclaredLevelOf(q)
                    /\ idx = {} => q.highest.isNull
     /\ \A r \in alertReqs, ok \in BOOLEAN, items \in ItemLists :
          StatusWritten(r, ok, items) =>
             alertView'.badge =
               Max(DeclaredLevelOf(r), ThresholdLevelOf(ok, items))]_vars

\* an alert of level 4 was combined with a lower, nonzero threshold level
C12_AlertAboveThreshold ==
  /\ alertView.badge = 4
  /\ alertView.title = "alert"
  /\ alertView.details # NoItems
  /\ \A i \in 1..Len(alertView.details) : alertView.details[i].level < 4

\* C13: whenever the status is written with a threshold level above the
\* declared level, the title is the threshold title, built from the threshold
\* level and the first parameter at that level, and the affected-areas table
\* is cleared by this invocation without a barangay-details fetch.
C13_ThresholdDriven ==
  [][\A r \in alertReqs, ok \in BOOLEAN, items \in ItemLists :
        (StatusWritten(r, ok, items)
           /\ ThresholdLevelOf(ok, items) > DeclaredLevelOf(r)) =>
          LET t == ThresholdLevelOf(ok, items)
              first == CHOOSE i \in 1..Len(items) :
                          /\ items[i].level = t
                          /\ \A j \in 1..(i - 1) : items[j].level # t
          IN  /\ alertView'.title = "threshold"
              /\ alertView'.titleLevel = t
              /\ alertView'.titleParam = items[first].parameter
              /\ areaTable' = [by |-> r.token, rows |-> "none"]
              /\ areaReqs' = areaReqs]_vars

\* a declared alert with affected barangays was outranked by the thresholds
C13_AlertOutranked ==
  \E r \in alertReqs :
    /\ r.stage = "pstatus"
    /\ r.token = alertsReqToken
    /\ ~r.highest.isNull /\ r.highest.level > 0 /\ r.highest.affected # {}
    /\ alertView.title = "threshold"
    /\ alertView.titleLevel > r.highest.level
    /\ areaTable = [by |-> r.token, rows |-> "none"]

\* C14: every explanation written to the alert message, from the threshold
\* response or from the parameter-status response, holds at most three items,
\* all of level > 0, in non-increasing level order, and no item of the
\* response left out has a level above an item included.
C14_ExplanationTop3 ==
  [][\A r \in alertReqs, ok \in BOOLEAN, items \in ItemLists, listed \in BOOLEAN :
        ((SevResponse(r, ok, items) \/ PStatusResponse(r, ok, items, listed))
           /\ alertView'.details # alertView.details
           /\ alertView'.details # NoItems) =>
          LET d == alertView'.details
          IN  /\ Len(d) <= 3
              /\ \A i \in 1..Len(d) : d[i].level > 0
              /\ \A i \in 1..Len(d), j \in 1..Len(d) :
                    i < j => d[i].level >= d[j].level
              /\ \A k \in 1..Len(items) :
                    items[k] \notin Range(d) =>
                       \A i \in 1..Len(d) : items[k].level <= d[i].level]_vars

\* C15: the highest alert kept by an invocation is the considered alert of
\* maximum level that comes first in the response.
C15_EarliestOfTop ==
  [][\A r \in alertReqs, res \in AlertLists :
        AlertsTaken(r, res) =>
           LET idx == {i \in 1..Len(res) :
                         barangayId = Null \/ barangayId \in res[i].affected}
               top == {i \in idx : \A j \in idx : res[j].level <= res[i].level}
               first == CHOOSE i \in top : \A j \in top : i <= j
           IN  \E q \in alertReqs' \ alertReqs :
                  /\ q.token = r.token
                  /\ q.stage = "sev"
                  /\ q.highest = IF idx = {} THEN NoAlert
                                 ELSE [isNull |-> FALSE, level |-> res[first].level,
                                       affected |-> res[first].affected]]_vars

\* several considered alerts shared the top level and one was kept
C15_TieResolved ==
  \E r \in alertReqs :
    r.stage = "sev" /\ r.tied /\ ~r.highest.isNull /\ r.highest.level > 0

\* -------------------------------------------------------------------- C16
\* C16: when the flood-alerts fetch of the current invocation fails, the alert
\* status is not left showing a status applied by an earlier response (an
\* alert title, a threshold title or 'No Active Alerts').
C16_FailureResetsView ==
  [][\A r \in alertReqs, res \in AlertPayloads :
        (r.stage = "alerts" /\ r.token = alertsReqToken
           /\ AlertsResponse(r, FALSE, res)) =>
          alertView'.title \notin {"alert", "threshold", "none"}]_vars

\* -------------------------------------------------------------------- C17
\* C17: once the page has written the alert status, the badge reads 'Normal'
\* only when it was written by the branch for no alert and no breach, and not
\* while the alerts or threshold fetch of the current invocation is pending.
C17_NormalOnlyWhenKnown ==
  (alertView.badge = 0 /\ alertView.title # "init") =>
     /\ alertView.title = "none"
     /\ \A r \in alertReqs :
           r.token = alertsReqToken => r.stage \notin {"alerts", "sev"}

\* -------------------------------------------------------------------- C18
\* C18: in dashboard.js, when the fetch of checkActiveAlerts fails, the status
\* display is not set to 'Normal' with 'No active alerts'.
C18_FailureIsNotNormal ==
  [][\A q \in dash.reqs, res \in AlertPayloads :
        (q.kind = "alerts" /\ DashAlertsResponse(q, FALSE, res)) =>
          ~(dash'.statusText = "Normal"
              /\ dash'.alertsCount = "No active alerts")]_vars

\* -------------------------------------------------------------------- C19
\* C19: when the sensor fetch fails every one of the five values reads '--',
\* and after a successful response every parameter without a reading reads
\* '--' (not a number and not the text shown before).
C19_MissingIsDashes ==
  [][\A ok \in BOOLEAN, readings \in SensorPayloads :
        SensorResponse(ok, readings) =>
          \A p \in SensorParams :
             (~ok \/ \A i \in 1..Len(readings) : readings[i].sensor_type # p)
                => sensorView'[p] = "--"]_vars

\* a response with readings for temperature and rainfall only was applied
C19_PartialReadings ==
  /\ sensorView["temperature"] = "0"
  /\ sensorView["rainfall"] = "25"
  /\ sensorView["humidity"] = "--"
  /\ sensorReqs = 0

\* -------------------------------------------------------------------- C20
\* C20: when the map-data fetch fails, the map status reads 'Unable to load
\* map data' and no layers or barangay circles drawn from an earlier response
\* are left on the map.
C20_MapFailureClears ==
  [][\A r \in mapReqs, listed \in BOOLEAN :
        (r.stage = "map" /\ MapResponse(r, FALSE, listed)) =>
          /\ mapView'.lastUpdated = "Unable to load map data"
          /\ mapView'.layers = 0
          /\ mapView'.circles = {}]_vars

\* ------------------------------------------------------ the series, aligned
\* the labels of all the series handed to mergeSeries
InputLabels == UNION {Range(align.arr[i].labels) : i \in 1..Len(align.arr)}

\* the series handed to mergeSeries under key k
InputOf(k) == CHOOSE s \in Range(align.arr) : s.key = k

\* C21: alignment completeness: the label axis that mergeSeries returns has as
\* many entries as there are distinct timestamp strings over all the input
\* series, and every series of the output has exactly that many slots.
C21_AlignmentComplete ==
  align.step = "merged" =>
    /\ Len(align.merged.labels) = Cardinality(InputLabels)
    /\ \A k \in DOMAIN align.merged.series :
          Len(align.merged.series[k]) = Len(align.merged.labels)

\* C21 witness: two series that share a label and one that repeats a label
\* have been merged onto an axis shorter than the labels handed in.
C21_SharedLabelsMerged ==
  /\ align.step = "merged"
  /\ Len(align.arr) = 5
  /\ Range(align.arr[1].labels) \cap Range(align.arr[3].labels) # {}
  /\ Len(align.arr[1].labels) > Cardinality(Range(align.arr[1].labels))
  /\ Len(align.merged.labels) >= 2

\* C22: the labels that mergeSeries returns are the union of the input
\* timestamps, strictly increasing in chronological order, with no
\* duplicates, in whatever order the inputs list them.
C22_LabelsStrictlyIncreasing ==
  align.step = "merged" =>
    /\ Range(align.merged.labels) = InputLabels
    /\ \A i, j \in 1..Len(align.merged.labels) :
          i < j => /\ DateMs(align.merged.labels[i]) # NaN
                   /\ DateMs(align.merged.labels[j]) # NaN
                   /\ DateMs(align.merged.labels[i]) < DateMs(align.merged.labels[j])

\* C23: alignment projection: for each input key and each label of the axis,
\* the slot of the output holds a value the input gives at that timestamp
\* when the input has the timestamp, and null otherwise; the output has the
\* keys of the inputs.
C23_Projection ==
  align.step = "merged" =>
    /\ DOMAIN align.merged.series = {s.key : s \in Range(align.arr)}
    /\ \A k \in DOMAIN align.merged.series, i \in 1..Len(align.merged.labels) :
          LET s == InputOf(k)
              l == align.merged.labels[i]
              v == align.merged.series[k][i]
          IN  IF l \in Range(s.labels)
              THEN \E j \in 1..Len(s.labels) : s.labels[j] = l /\ s.values[j] = v
              ELSE v = NoData

\* C23 witness: temperature at T1, T2 and rainfall at T2, T3 have been merged
\* into t = [30, 31, null] and r = [null, 5, 12] on the labels [T1, T2, T3].
C23_ExampleProjected ==
  /\ align.step = "merged"
  /\ Len(align.arr) = 5
  /\ align.arr[1].labels = <<"d01", "d05">>
  /\ align.arr[3].labels = <<"d05", "d10">>
  /\ align.merged.labels = <<"d01", "d05", "d10">>
  /\ align.merged.series["t"] = <<30, 31, NoData>>
  /\ align.merged.series["r"] = <<NoData, 5, 12>>

\* C24: when one input series lists the same timestamp more than once, the
\* output holds at that timestamp the value of the last occurrence in the
\* order of the input.
C24_LastOccurrenceWins ==
  align.step = "merged" =>
    \A k \in DOMAIN align.merged.series, i \in 1..Len(align.merged.labels) :
       LET s == InputOf(k)
           occ == {j \in 1..Len(s.labels) : s.labels[j] = align.merged.labels[i]}
       IN  Cardinality(occ) > 1 =>
             \E j \in occ : /\ \A x \in occ : x <= j
                            /\ align.merged.series[k][i] = s.values[j]

\* C24 witness: the temperature series listed one timestamp first and last,
\* with different values, and has been merged.
C24_RepeatedTimestampMerged ==
  /\ align.step = "merged"
  /\ Len(align.arr) = 5
  /\ align.arr[1].labels = <<"d05", "d01", "d05">>
  /\ align.arr[1].values[1] # align.arr[1].values[3]
  /\ align.merged.labels = <<"d01", "d05">>

\* C25: alignment idempotence: mergeSeries over the series of an aligned set
\* (each key with the aligned labels and its aligned values) returns the same
\* labels and the same series.
C25_AlignmentIdempotent ==
  align.step = "again" => align.again = align.merged

\* C25 witness: a set of three or more labels, one of which does not parse,
\* has been aligned and then aligned again by the binary insertion sort.
C25_AlignedTwice ==
  /\ align.step = "again"
  /\ align.engine = "tim"
  /\ Len(align.merged.labels) >= 3
  /\ "bad" \in Range(align.merged.labels)
  /\ align.merged.labels # SortByDate(align.merged.labels)

\* C26 as stated: mergeSeries over an empty list, or over inputs whose label
\* arrays are all empty, returns labels = [] and series = {}, a mapping with
\* no keys.
C26_EmptyGivesNoKeys ==
  (align.step = "merged" /\ InputLabels = {}) =>
    /\ align.merged.labels = <<>>
    /\ DOMAIN align.merged.series = {}

\* C26 amended: mergeSeries over an empty list returns labels = [] and
\* series = {}; over inputs whose label arrays are all empty it returns
\* labels = [] and a series mapping that holds an empty array under the key
\* of every input.
C26_EmptyGivesEmptyArrays ==
  (align.step = "merged" /\ InputLabels = {}) =>
    /\ align.merged.labels = <<>>
    /\ DOMAIN align.merged.series = {s.key : s \in Range(align.arr)}
    /\ \A k \in DOMAIN align.merged.series : align.merged.series[k] = <<>>

\* C26 witness: the five chart series, none with a label, have been merged.
C26_FiveEmptyMerged ==
  /\ align.step = "merged"
  /\ Len(align.arr) = 5
  /\ InputLabels = {}

\* ------------------------------------------------------ the series, filtered
\* the day-based range keys with their number of days (7, 30, 365)
DayKeys == {r \in RangeKeys : rangeToDays(r) # Null}

\* the last label of the set handed to filterMergedByRange
LastLabel == align.merged.labels[Len(align.merged.labels)]

\* the call has to cut: a day-based key and a last label that parses
Cutting ==
  /\ align.step = "filtered"
  /\ align.range \in DayKeys
  /\ align.merged.labels # <<>>
  /\ DateMs(LastLabel) # NaN

\* C27: range filter cutoff: for a day-based range key of N days,
\* filterMergedByRange retains exactly the entries whose timestamp is at or
\* after (timestamp of the last label) - N days, in their order.
C27_CutoffInclusive ==
  Cutting =>
    align.filtered.labels =
      SelectSeq(align.merged.labels,
                LAMBDA l : /\ DateMs(l) # NaN
                           /\ DateMs(l) >= DateMs(LastLabel)
                                             - rangeToDays(align.range) * DayLen)

\* C27 witness: labels at day 1, day 3 and day 10 have been filtered with the
\* 7-day range: day 3, on the cutoff, and day 10 are kept, day 1 is dropped.
C27_BoundaryKept ==
  /\ align.step = "filtered"
  /\ align.range = "1w"
  /\ align.merged.labels = <<"d01", "d03", "d10">>
  /\ align.filtered.labels = <<"d03", "d10">>

\* C28: range filter alignment: in the output of filterMergedByRange every
\* series has as many slots as the output has labels, and at each retained
\* label every series holds the value it held at that label in the input.
C28_FilterKeepsAlignment ==
  align.step = "filtered" =>
    \A k \in FiveKeys :
       /\ Len(align.filtered.series[k]) = Len(align.filtered.labels)
       /\ \A n \in 1..Len(align.filtered.labels) :
             \E i \in 1..Len(align.merged.labels) :
                /\ align.merged.labels[i] = align.filtered.labels[n]
                /\ align.filtered.series[k][n] = align.merged.series[k][i]

\* C28 witness: a set whose first entry falls out of the window, and whose
\* retained entries hold both values and nulls, has been filtered.
C28_FilteredWithNulls ==
  /\ Cutting
  /\ 0 < Len(align.filtered.labels)
  /\ Len(align.filtered.labels) < Len(align.merged.labels)
  /\ align.filtered.labels[1] # align.merged.labels[1]
  /\ \E n \in 1..Len(align.filtered.labels) :
        /\ align.filtered.series["t"][n] # NoData
        /\ align.filtered.series["r"][n] = NoData

ShownAlerts == <<alertView, areaTable>>

\* C30: applyThresholdsNow outcome handling: a 401 or 403 response is a
\* silent no-op (nothing logged or surfaced, no alerts refresh, the alert
\* view unchanged); any other non-2xx response or network error is caught,
\* never rejects to the caller and leaves the view unchanged; only a 2xx
\* response starts an alerts refresh (updateAlerts takes a new token and
\* fires its fetch).
C30_ApplyOutcomes ==
  [][\A st \in ApplyStatuses :
       ApplyResponse(st) =>
         /\ applyThresholdsNow(st).settled = "fulfilled"
         /\ st \in {"401", "403"} => ~applyThresholdsNow(st).logged
         /\ st # "200" => /\ ShownAlerts' = ShownAlerts
                          /\ UNCHANGED <<alertsReqToken, alertReqs>>
         /\ st = "200" => /\ alertsReqToken' = alertsReqToken + 1
                          /\ \E r \in alertReqs' \ alertReqs :
                                r.token = alertsReqToken']_vars

\* C30 witness: with an alert status on screen, one apply-thresholds request
\* has been answered by a 2xx and has started an alerts refresh beyond those
\* of the page load and of the restored selection, and another is pending.
C30_ApplyAnswered ==
  /\ applyReqs = 1
  /\ alertView.title # "init"
  /\ alertsReqToken >= 3

\* ------------------------------------------------- scope of the alert status
\* the alerts of a response that count for the selected barangay: all of
\* them when none is selected
Counting(res) ==
  {i \in 1..Len(res) : barangayId = Null \/ barangayId \in res[i].affected}

\* C31: barangay pre-filter of the declared alerts: when a barangay is
\* selected, only the alerts whose affected_barangays hold the selected id
\* contribute to the declared level and to the highest alert; when no
\* barangay is selected every fetched alert contributes.
C31_BarangayPreFilter ==
  [][\A r \in alertReqs, res \in AlertLists :
       AlertsTaken(r, res) =>
         \E q \in alertReqs' :
            /\ q.token = r.token /\ q.stage = "sev"
            /\ q.highest.isNull <=> (Counting(res) = {})
            /\ Counting(res) # {} =>
                 \E i \in Counting(res) :
                    /\ \A j \in Counting(res) : res[j].level <= res[i].level
                    /\ q.highest.level = res[i].level
                    /\ q.highest.affected = res[i].affected]_vars

\* C31 witness: with barangay 1 selected, an alerts response has been taken
\* and the highest alert kept is one that affects barangay 1.
C31_FilteredToBarangay ==
  /\ barangayId = 1
  /\ \E q \in alertReqs :
        /\ q.stage = "sev" /\ q.b = 1
        /\ ~q.highest.isNull
        /\ q.highest.affected = {1}

\* C32: scope consistency of the applied alert status: an alerts response is
\* applied only if the scope (municipalityId, barangayId) its request was
\* built with is the scope selected at the moment it is applied, the restore
\* of a saved selection at start-up included.
C32_AppliedInRequestScope ==
  [][\A r \in alertReqs, res \in AlertPayloads :
       AlertsTaken(r, res) =>
         (r.m = municipalityId /\ r.b = barangayId)]_vars

\* ------------------------------------------------- scope of a trends cycle
\* the scopes a cycle started with (m, b) goes through, each once
ChainFrom(m, b) ==
  IF b # Null THEN IF m # Null THEN ScopeChain(m, b)
                   ELSE << [m |-> Null, b |-> b], [m |-> Null, b |-> Null] >>
  ELSE IF m # Null THEN << [m |-> m, b |-> Null], [m |-> Null, b |-> Null] >>
  ELSE << [m |-> Null, b |-> Null] >>

\* C33: the fallback chain uses one scope snapshot: the stages of a trends
\* cycle follow the chain of the scope the cycle started with, also when the
\* selection changes while the cycle is in flight; the municipality-only
\* scope is never skipped and no stage is fetched with the filters of another
\* selection.
C33_OneScopeSnapshot ==
  \A t \in trends :
    /\ Len(t.log) <= Len(ChainFrom(t.log[1].m, t.log[1].b))
    /\ \A i \in 1..Len(t.log) :
          /\ t.log[i].m = ChainFrom(t.log[1].m, t.log[1].b)[i].m
          /\ t.log[i].b = ChainFrom(t.log[1].m, t.log[1].b)[i].b

\* ------------------------------------------------------ affected areas
\* C34: the affected-areas table is fenced like the alert status: the rows a
\* barangay-details response writes belong to the alerts update applied last;
\* a response started by an older update never overwrites what a newer
\* update has written.
C34_AreasFenced ==
  [][\A q \in areaReqs, ok \in BOOLEAN :
       AreaResponse(q, ok) => q.by >= areaTable.by]_vars

\* C35: badge and explanation agree: when the alert message lists a breached
\* parameter at level L > 0, the badge shows a combined level of at least L;
\* the badge never reads 'Normal' over a message that lists a breached
\* threshold.
C35_BadgeCoversDetails ==
  \A i \in 1..Len(alertView.details) :
     alertView.details[i].level > 0 =>
       alertView.badge >= alertView.details[i].level

\* -------------------------------------------------------------------- C36
\* showTrendsNoData has cleared the chart and no render has followed
ChartCleared ==
  /\ chart.overlay # ""
  /\ chart.labels = <<>>
  /\ chart.datasets = NoSeries

\* C36: while the chart is in the no-data state, an align-toggle or a resize
\* event leaves the datasets empty; the cached series is not put back.
C36_NoDataSticky ==
  [][(ChartCleared /\ (AlignToggle \/ ChartResize))
       => chart'.datasets = NoSeries]_vars

\* -------------------------------------------------------------------- C37
\* the status texts that the map stream writes for a pending or failed fetch
MapOwnedStatus == {"Loading data...", "Unable to load map data"}

\* C37: while the map status reads 'Loading data...' or 'Unable to load map
\* data', a sensor response leaves the status as it is.
C37_MapStatusOwned ==
  [][(mapView.lastUpdated \in MapOwnedStatus /\ SensorResponses)
       => mapView'.lastUpdated = mapView.lastUpdated]_vars

\* -------------------------------------------------------------------- C38
\* the page was reloaded from a page whose own restore had finished, its
\* restore chain (lines 387-410) has finished and no event has followed
RestoreDone ==
  /\ beforeReload.reloaded
  /\ beforeReload.settled
  /\ startup = "loaded"
  /\ populateReqs = {}
  /\ nEvents = 0

\* C38: after a page reload the scope restored from session storage is the
\* scope that was selected just before the reload.
C38_ScopeRoundTrip ==
  RestoreDone =>
    (municipalityId = beforeReload.m /\ barangayId = beforeReload.b)

\* -------------------------------------------------------------------- C39
\* the selection and the range will not change any more: the events are
\* spent, the municipalities fetch and the barangay fetches have settled
Quiet ==
  /\ nEvents = MaxEvents
  /\ startup # "fetching"
  /\ populateReqs = {}

\* the newest cycle has finished, each of its stages was issued with the
\* filters the current selection gives to that stage and with the current
\* range, and the chart shows what it ended with
ShownCurrent ==
  \E c \in trends :
    /\ c.stage = 0
    /\ \A d \in trends : d.id <= c.id
    /\ Len(c.log) <= Len(ChainFrom(municipalityId, barangayId))
    /\ \A i \in 1..Len(c.log) :
          /\ c.log[i].m = ChainFrom(municipalityId, barangayId)[i].m
          /\ c.log[i].b = ChainFrom(municipalityId, barangayId)[i].b
          /\ c.log[i].range = trendsRange
    /\ \/ /\ c.log[Len(c.log)].res = "data"
          /\ chart.src.id = c.id
          /\ chart.overlay = ""
       \/ /\ c.log[Len(c.log)].res = "empty"
          /\ ChartCleared

\* C39: once the selection and the range have stopped changing, and while
\* the trends timer can still fire, the chart eventually shows the result of
\* a cycle issued entirely with the current selection and range.
C39_TrendsCatchUp ==
  (Quiet /\ LastId(trends) < MaxCycles) ~> ShownCurrent

\* the selection changed under a cycle in flight (the load of the change was
\* dropped by the guard) and no further change will follow
C39_ChangeDuringCycle ==
  /\ Quiet
  /\ LastId(trends) < MaxCycles
  /\ \E c \in trends : c.stage # 0 /\ c.changed
  /\ ~ShownCurrent

\* -------------------------------------------------------------------- C40
\* C40: state._trendsFetchInFlight is true exactly while a trends cycle is
\* pending: it is set when a cycle starts, stays set through the fallback
\* stages, and is reset on every path a cycle ends on (render, fallback
\* render, no data, exception).
C40_FlagWhilePending ==
  trendsFetchInFlight <=> (\E c \in trends : c.stage # 0)

\* a cycle has gone through a fallback stage and ended with an exception,
\* and the flag is released
C40_ReleasedAfterThrow ==
  /\ ~trendsFetchInFlight
  /\ \E c \in trends :
        /\ c.stage = 0
        /\ Len(c.log) >= 2
        /\ c.log[Len(c.log)].res = "thrown"

====
